---- MODULE Spec2Model ----
(***************************************************************************)
(* Model of the mpllayout placement engine (pins, rulers, frames and the   *)
(* LayoutCreator orchestration) of lguangyu/PlotMassSPectra2D.             *)
(*                                                                         *)
(* Coordinates are exact integers counted in eighths of the source's unit  *)
(* (8 = 1.0 inch); the inputs are drawn from multiples chosen so that every*)
(* halving done by a ruler stays exact (checked by ExactArithmetic).       *)
(* ruler_pos (0.0, 0.5, 1.0) is kept doubled (0, 1, 2).                    *)
(* An optional value is None == <<>> or Some(x) == <<x>>.                  *)
(* An element is a tuple: <<f>> a frame, <<f, ax>> a ruler of frame f,     *)
(* <<f, ax, pn>> a pin of that ruler.                                      *)
(***************************************************************************)
EXTENDS Integers, Sequences, FiniteSets, TLC

VARIABLES frames, origin, figpos, figpos_ref, figpos_offset, ruler_length,
          op, err, out, nDecl

vars == <<frames, origin, figpos, figpos_ref, figpos_offset, ruler_length,
          op, err, out, nDecl>>

----------------------------------------------------------------------------
(* Bounds and universe *)

\* number of constraint declarations explored in one run
MaxDecl == 4

\* depth of nested calls at which the interpreter raises RecursionError; more
\* than the deepest nesting of the runs explored, which never reach it
RecursionLimit == 12

None == <<>>
Some(x) == <<x>>
Val(o) == o[1]

CanvasName == "canvas"
FrameNames == {"A", "B"}
AllFrames == {CanvasName} \cup FrameNames
Axes == <<"h", "v">>

\* pins_dict insertion order of a ruler
init_pins == <<"pmax", "pmid", "pmin">>

\* twice the ruler_pos given to each pin at creation
ruler_pos2(pn) == CASE pn = "pmax" -> 2 [] pn = "pmid" -> 1 [] pn = "pmin" -> 0

AllRulers == {<<f, ax>> : f \in AllFrames, ax \in {"h", "v"}}
AllPins == {<<f, ax, pn>> : f \in AllFrames, ax \in {"h", "v"},
                            pn \in {"pmax", "pmid", "pmin"}}

IsFrame(e) == Len(e) = 1
IsRuler(e) == Len(e) = 2
IsPin(e) == Len(e) = 3

\* ElementBase.parent: a pin's ruler, a ruler's frame, a frame's canvas
parent(e) ==
    IF IsPin(e) THEN Some(<<e[1], e[2]>>)
    ELSE IF IsRuler(e) THEN Some(<<e[1]>>)
    ELSE IF e[1] = CanvasName THEN None ELSE Some(<<CanvasName>>)

elem_name(e) ==
    IF IsPin(e) THEN e[3]
    ELSE IF IsRuler(e) THEN (IF e[2] = "h" THEN "h_ruler" ELSE "v_ruler")
    ELSE e[1]

\* a name as the sequence of its parts between the "/" characters
Segments(name) ==
    CASE name = "h_ruler/pmin" -> <<"h_ruler", "pmin">>
      [] OTHER                 -> <<name>>

\* "/" in name
HasSlash(name) == Len(Segments(name)) > 1

\* ElementBase.global_name: the parent's global_name + "/" + name, as the
\* sequence of the parts between the "/" characters of the result
RECURSIVE global_name(_)
global_name(e) ==
    IF parent(e) = None THEN Segments(elem_name(e))
    ELSE global_name(Val(parent(e))) \o Segments(elem_name(e))

iter_pins(r) == [i \in 1..3 |-> <<r[1], r[2], init_pins[i]>>]
RulerPins(r) == {iter_pins(r)[i] : i \in 1..3}
FramePins(f) == {p \in AllPins : p[1] = f}

\* all orders in which a set of pins of one ruler may be iterated: the set is
\* hashed by object identity, so the order is fixed by the run, not the code
\* (the three rotations give every first element of every subset and every
\* leading pair)
SetOrders ==
    { <<"pmax", "pmid", "pmin">>, <<"pmid", "pmin", "pmax">>,
      <<"pmin", "pmax", "pmid">> }

\* RectangularFrame.__anchors_getter: anchor name -> (h pin name, v pin name)
AnchorNames == {"bottomleft", "bottom", "bottomright", "left", "center",
                "right", "topleft", "top", "topright"}

anchors_getter(a) ==
    CASE a = "bottomleft"  -> <<"pmin", "pmin">>
      [] a = "bottom"      -> <<"pmid", "pmin">>
      [] a = "bottomright" -> <<"pmax", "pmin">>
      [] a = "left"        -> <<"pmin", "pmid">>
      [] a = "center"      -> <<"pmid", "pmid">>
      [] a = "right"       -> <<"pmax", "pmid">>
      [] a = "topleft"     -> <<"pmin", "pmax">>
      [] a = "top"         -> <<"pmid", "pmax">>
      [] a = "topright"    -> <<"pmax", "pmax">>

\* a lookup that takes the anchor name as it is written
lower_Identity(a) == a

\* str.lower() on the anchor names that are passed in
lower(a) ==
    CASE a = "BottomLeft" -> "bottomleft"
      [] a = "CENTER"     -> "center"
      [] a = "TopRight"   -> "topright"
      [] a = "Middle"     -> "middle"
      [] OTHER            -> a

\* get_ruler_pins_by_anchor_name raises ValueError on this anchor name
NoAnchor(a) == lower(a) \notin AnchorNames

\* the two pins behind an anchor of frame f: <<horizontal pin, vertical pin>>
get_ruler_pins_by_anchor_name(f, a) ==
    << <<f, "h", anchors_getter(lower(a))[1]>>,
       <<f, "v", anchors_getter(lower(a))[2]>> >>

----------------------------------------------------------------------------
(* The object graph handed through the operations.  st is a record:        *)
(*   figpos, figpos_ref, figpos_offset : per pin                           *)
(*   ruler_length                      : per ruler (explicit length)       *)
(*   err       : "none" or the name of the exception that was raised       *)
(*   dep_path  : the dep_path list of the running recursive solve          *)
(*   cycle     : the elements named by a CircularDependencyError message   *)
(*   reached   : elements solve_placement_resursive was called on          *)
(*   ord       : iteration order of the pin sets in this run               *)
(*   exact     : no halving of an odd number happened                      *)
(*   warned    : warnings.warn was called                                  *)
(*   autosized : canvas rulers whose length place_all_frames computed      *)
(*   events    : history of the recursive solve, as <<kind, element>>:     *)
(*               "local" the local solve_placement() was invoked, "early"  *)
(*               it was invoked with an unplaced dependency, "blind" it    *)
(*               was invoked on a pin with an unplaced reference,          *)
(*               "returned" the recursive call returned, "unplaced" with   *)
(*               the element unplaced, "path" it returned with another     *)
(*               dep_path than it was entered with, "repush" the element   *)
(*               was appended to a dep_path that held it, "moved" a local  *)
(*               solve changed or cleared the position of a placed pin     *)
(*   log       : the steps of place_all_frames as <<kind, name>>, in the   *)
(*               order they started: "clear", "origin", "solve", "verify"  *)
(*               of a frame, "size", "check" of a canvas dimension, and    *)
(*               "raised" after the step that raised                       *)
(*   figsize   : the arguments of figure.set_size_inches                   *)
(*   artists   : per created artist, the figure size its rectangle is      *)
(*               normalised by                                             *)

Raise(st, e) == [st EXCEPT !.err = e]
Failed(st) == st.err # "none"

\* n / d for a divisor of either sign (exact whenever d divides n)
Quot(n, d) == IF d < 0 THEN (0 - n) \div (0 - d) ELSE n \div d

\* the rest of a call runs only when nothing was raised so far
Then(st, Op(_)) == IF st.err # "none" THEN st ELSE Op(st)

InSeq(x, s) == \E i \in 1..Len(s) : s[i] = x

\* PinBase.is_placed / is_placeable
Pin_is_placed(p, st) == st.figpos[p] # None
Pin_is_placeable(p, st) == st.figpos_ref[p] # None

\* PinBase.set_placement / set_placement_ref / clear_*
Pin_set_placement(p, v, st) == [st EXCEPT !.figpos[p] = v]
Pin_set_placement_ref(p, r, o, st) ==
    [st EXCEPT !.figpos_ref[p] = r, !.figpos_offset[p] = o]
Pin_clear_placement_ref(p, st) == Pin_set_placement_ref(p, None, 0, st)

\* get_dependencies of a pin that forgets its reference pin
Pin_get_dependencies_NoRef(p, st) ==
    IF st.figpos_ref[p] # None THEN <<>> ELSE <<Val(parent(p))>>

\* get_dependencies of a pin that never falls back on its parent ruler
Pin_get_dependencies_NoParent(p, st) ==
    IF st.figpos_ref[p] # None THEN <<Val(st.figpos_ref[p])>> ELSE <<>>

\* RulerPin._get_dependency and PinBase.get_dependencies
Pin_get_dependencies(p, st) ==
    IF st.figpos_ref[p] # None THEN <<Val(st.figpos_ref[p])>>
    ELSE <<Val(parent(p))>>

\* solve_placement of a pin that forgets to add the offset
Pin_solve_placement_NoOffset(p, st) ==
    IF st.figpos_ref[p] = None THEN Raise(st, "AttributeError")
    ELSE IF ~Pin_is_placed(Val(st.figpos_ref[p]), st)
    THEN Raise(st, "PlacementUnsolvableError")
    ELSE Pin_set_placement(p, Some(Val(st.figpos[Val(st.figpos_ref[p])])), st)

\* PinBase.solve_placement
Pin_solve_placement(p, st) ==
    IF st.figpos_ref[p] = None THEN Raise(st, "AttributeError")
    ELSE IF ~Pin_is_placed(Val(st.figpos_ref[p]), st)
    THEN Raise(st, "PlacementUnsolvableError")
    ELSE Pin_set_placement(p,
            Some(Val(st.figpos[Val(st.figpos_ref[p])]) + st.figpos_offset[p]), st)

\* verify_placement of a pin without the comparison with the offset
Pin_verify_placement_NoOffset(p, st) ==
    IF ~Pin_is_placeable(p, st) THEN st
    ELSE IF ~Pin_is_placed(p, st) \/ ~Pin_is_placed(Val(st.figpos_ref[p]), st)
    THEN Raise(st, "PlacementError")
    ELSE st

\* PinBase.verify_placement (math.isclose is equality on the exact grid)
Pin_verify_placement(p, st) ==
    IF ~Pin_is_placeable(p, st) THEN st
    ELSE IF ~Pin_is_placed(p, st) \/ ~Pin_is_placed(Val(st.figpos_ref[p]), st)
    THEN Raise(st, "PlacementError")
    ELSE IF Val(st.figpos[p]) - Val(st.figpos[Val(st.figpos_ref[p])])
              # st.figpos_offset[p]
    THEN Raise(st, "IncomplyingPlacementError")
    ELSE st

----------------------------------------------------------------------------
(* Rulers *)

\* LinearRuler._get_anchorable_pins: the filtered set, in iteration order
get_anchorable_pins(r, filt, st) ==
    LET cond(p) == CASE filt = "both" -> Pin_is_placed(p, st) \/ Pin_is_placeable(p, st)
                     [] filt = "placed" -> Pin_is_placed(p, st)
                     [] filt = "placeable" -> Pin_is_placeable(p, st)
        inorder == [i \in 1..3 |-> <<r[1], r[2], st.ord[i]>>]
    IN SelectSeq(inorder, cond)

\* the length LinearRuler.calc_ruler_length takes from the placed pins rp1, rp2
LengthBetween(rp1, rp2, st) ==
    IF ruler_pos2(rp1[3]) = ruler_pos2(rp2[3]) THEN 0
    ELSE Quot(2 * (Val(st.figpos[rp1]) - Val(st.figpos[rp2])),
              ruler_pos2(rp1[3]) - ruler_pos2(rp2[3]))

\* LinearRuler.calc_ruler_length
CalcFrom(placed_pins, st) ==
    IF Len(placed_pins) < 2 THEN 0
    ELSE LengthBetween(placed_pins[1], placed_pins[2], st)

calc_ruler_length(r, st) == CalcFrom(get_anchorable_pins(r, "placed", st), st)

\* RulerBase.get_ruler_length
get_ruler_length(r, allow_calculated, st) ==
    IF st.ruler_length[r] = None /\ allow_calculated
    THEN Some(calc_ruler_length(r, st))
    ELSE st.ruler_length[r]

\* RulerBase.is_placed
Ruler_is_placed(r, st) == \A p \in RulerPins(r) : Pin_is_placed(p, st)

\* is_placeable that does not count the explicit length
Ruler_is_placeable_NoLength(r, st) ==
    Len(get_anchorable_pins(r, "both", st)) >= 2

\* LinearRuler.is_placeable
Ruler_is_placeable(r, st) ==
    Len(get_anchorable_pins(r, "both", st))
        + (IF st.ruler_length[r] # None THEN 1 ELSE 0) >= 2

\* RulerBase.get_dependencies
Ruler_get_dependencies(r, st) ==
    SelectSeq(iter_pins(r), LAMBDA p : Pin_is_placeable(p, st))

\* Interpolate that takes the doubled ruler_pos for the ruler_pos itself
Interpolate_Doubled(p, rp, rlen, st) ==
    Val(st.figpos[rp]) + (ruler_pos2(p[3]) - ruler_pos2(rp[3])) * rlen

\* the position LinearRuler.solve_placement gives pin p from the placed pin rp
Interpolate(p, rp, rlen, st) ==
    Val(st.figpos[rp]) + ((ruler_pos2(p[3]) - ruler_pos2(rp[3])) * rlen) \div 2

InterpolateExact(p, rp, rlen) ==
    ((ruler_pos2(p[3]) - ruler_pos2(rp[3])) * rlen) % 2 = 0

\* the loop of LinearRuler.solve_placement without "if p.is_placed():
\* continue": every pin of the ruler is set from rp and rlen
PlacePins_Overwrite(r, rlen, rp, st) ==
    [st EXCEPT
       !.figpos = [p \in AllPins |->
          IF p \in RulerPins(r)
          THEN Some(Interpolate(p, rp, rlen, st))
          ELSE st.figpos[p]],
       !.exact = @ /\ \A p \in RulerPins(r) : InterpolateExact(p, rp, rlen)]

\* the loop of LinearRuler.solve_placement: every unplaced pin from rp and rlen
PlacePins(r, rlen, rp, st) ==
    [st EXCEPT
       !.figpos = [p \in AllPins |->
          IF p \in RulerPins(r) /\ st.figpos[p] = None
          THEN Some(Interpolate(p, rp, rlen, st))
          ELSE st.figpos[p]],
       !.exact = @ /\ \A p \in RulerPins(r) :
                        st.figpos[p] = None => InterpolateExact(p, rp, rlen)]

SolveWith(r, rlen, placed, st) ==
    IF rlen = None THEN Raise(st, "DependencyUnplacedError")
    ELSE IF Len(placed) = 0 THEN Raise(st, "ValueError")
    ELSE PlacePins(r, Val(rlen), placed[1], st)

\* LinearRuler.solve_placement
Ruler_solve_placement(r, st) ==
    IF ~Ruler_is_placeable(r, st) THEN Raise(st, "PlacementUnsolvableError")
    ELSE SolveWith(r, get_ruler_length(r, TRUE, st),
                   get_anchorable_pins(r, "placed", st), st)

\* the loop "for p in self.iter_pins(): p.verify_placement()"
RECURSIVE VerifyPins(_, _, _)
VerifyPins(ps, i, st) ==
    IF i > Len(ps) \/ Failed(st) THEN st
    ELSE VerifyPins(ps, i + 1, Pin_verify_placement(ps[i], st))

\* CheckRuler without the check that pmid is midway between pmin and pmax
CheckRuler_NoMid(pmax, pmid, pmin, st) ==
    IF pmax = None \/ pmin = None \/ pmid = None THEN Raise(st, "TypeError")
    ELSE IF Val(pmax) < Val(pmin) THEN Raise(st, "IncomplyingPlacementError")
    ELSE st

\* CheckRuler without the check for a negative ruler length
CheckRuler_NoSign(pmax, pmid, pmin, st) ==
    IF pmax = None \/ pmin = None \/ pmid = None THEN Raise(st, "TypeError")
    ELSE IF Val(pmax) + Val(pmin) # Val(pmid) * 2
    THEN Raise(st, "IncomplyingPlacementError")
    ELSE st

\* the two ruler-level checks of LinearRuler.verify_placement
CheckRuler(pmax, pmid, pmin, st) ==
    IF pmax = None \/ pmin = None \/ pmid = None THEN Raise(st, "TypeError")
    ELSE IF Val(pmax) + Val(pmin) # Val(pmid) * 2
    THEN Raise(st, "IncomplyingPlacementError")
    ELSE IF Val(pmax) < Val(pmin) THEN Raise(st, "IncomplyingPlacementError")
    ELSE st

\* LinearRuler.verify_placement
Ruler_verify_placement(r, st) ==
    Then(VerifyPins(iter_pins(r), 1, st),
         LAMBDA s : CheckRuler(s.figpos[<<r[1], r[2], "pmax">>],
                               s.figpos[<<r[1], r[2], "pmid">>],
                               s.figpos[<<r[1], r[2], "pmin">>], s))

----------------------------------------------------------------------------
(* Frames *)

\* Frame2DBase.get_dependencies
Frame_get_dependencies(f) == << <<f, "h">>, <<f, "v">> >>

\* Frame2DBase.is_placed
Frame_is_placed(f, st) ==
    \A i \in 1..2 : Ruler_is_placed(Frame_get_dependencies(f)[i], st)

\* Frame2DBase.is_placeable
Frame_is_placeable(f, st) ==
    \A i \in 1..2 : Ruler_is_placeable(Frame_get_dependencies(f)[i], st)

\* Frame2DBase.solve_placement
RECURSIVE SolveRulers(_, _, _)
SolveRulers(rs, i, st) ==
    IF i > Len(rs) \/ Failed(st) THEN st
    ELSE SolveRulers(rs, i + 1, Ruler_solve_placement(rs[i], st))

Frame_solve_placement(f, st) == SolveRulers(Frame_get_dependencies(f), 1, st)

\* Frame2DBase.verify_placement
RECURSIVE VerifyRulers(_, _, _)
VerifyRulers(rs, i, st) ==
    IF i > Len(rs) \/ Failed(st) THEN st
    ELSE VerifyRulers(rs, i + 1, Ruler_verify_placement(rs[i], st))

Frame_verify_placement(f, st) == VerifyRulers(Frame_get_dependencies(f), 1, st)

\* clear_placement that clears the references and offsets as well
Frame_clear_placement_AndRefs(f, st) ==
    [st EXCEPT
       !.figpos = [p \in AllPins |->
                     IF p \in FramePins(f) THEN None ELSE st.figpos[p]],
       !.figpos_ref = [p \in AllPins |->
                         IF p \in FramePins(f) THEN None ELSE st.figpos_ref[p]],
       !.figpos_offset = [p \in AllPins |->
                            IF p \in FramePins(f) THEN 0 ELSE st.figpos_offset[p]]]

\* Frame2DBase.clear_placement(anchor = None): every anchor, so every pin
Frame_clear_placement(f, st) ==
    [st EXCEPT !.figpos = [p \in AllPins |->
                             IF p \in FramePins(f) THEN None ELSE st.figpos[p]]]

\* the loop of Frame2DBase.set_placement over the two pins of the anchor
SetPins(pins, position, st) ==
    [st EXCEPT
       !.figpos_ref = [@ EXCEPT ![pins[1]] = None, ![pins[2]] = None],
       !.figpos_offset = [@ EXCEPT ![pins[1]] = 0, ![pins[2]] = 0],
       !.figpos = [@ EXCEPT ![pins[1]] = Some(position[1]),
                            ![pins[2]] = Some(position[2])]]

\* a python tuple and a python list of the given items
Tuple(items) == [type |-> "tuple", items |-> items]
List(items) == [type |-> "list", items |-> items]

\* Frame2DBase.set_placement(anchor, position): for a position that is not a
\* tuple the type test goes on to isinstance(offsets, list), and offsets is
\* not a name of this method
Frame_set_placement(f, a, position, st) ==
    IF position.type # "tuple" THEN Raise(st, "NameError")
    ELSE IF Len(position.items) # 2 THEN Raise(st, "TypeError")
    ELSE IF NoAnchor(a) THEN Raise(st, "ValueError")
    ELSE SetPins(get_ruler_pins_by_anchor_name(f, a), position.items, st)

\* Frame2DBase.get_extent of a placed frame
get_extent(f, st) ==
    << Val(st.figpos[<<f, "h", "pmin">>]), Val(st.figpos[<<f, "h", "pmax">>]),
       Val(st.figpos[<<f, "v", "pmin">>]), Val(st.figpos[<<f, "v", "pmax">>]) >>

\* Frame2DBase.get_placement(anchor)
Frame_get_placement(f, a, st) ==
    << st.figpos[get_ruler_pins_by_anchor_name(f, a)[1]],
       st.figpos[get_ruler_pins_by_anchor_name(f, a)[2]] >>

----------------------------------------------------------------------------
(* The shared capability: dispatch on the kind of element *)

is_placed(e, st) ==
    IF IsPin(e) THEN Pin_is_placed(e, st)
    ELSE IF IsRuler(e) THEN Ruler_is_placed(e, st)
    ELSE Frame_is_placed(e[1], st)

get_dependencies(e, st) ==
    IF IsPin(e) THEN Pin_get_dependencies(e, st)
    ELSE IF IsRuler(e) THEN Ruler_get_dependencies(e, st)
    ELSE Frame_get_dependencies(e[1])

solve_placement(e, st) ==
    IF IsPin(e) THEN Pin_solve_placement(e, st)
    ELSE IF IsRuler(e) THEN Ruler_solve_placement(e, st)
    ELSE Frame_solve_placement(e[1], st)

verify_placement(e, st) ==
    IF IsPin(e) THEN Pin_verify_placement(e, st)
    ELSE IF IsRuler(e) THEN Ruler_verify_placement(e, st)
    ELSE Frame_verify_placement(e[1], st)

\* some dependency in deps is not placed
AnyUnplaced(deps, st) == \E i \in 1..Len(deps) : ~is_placed(deps[i], st)

\* pin p has a reference that is not placed
RefUnplaced(p, st) ==
    st.figpos_ref[p] # None /\ st.figpos[Val(st.figpos_ref[p])] = None

\* history: self.solve_placement() is about to be invoked on e
NoteLocal(e, st) ==
    [st EXCEPT !.events = @ \cup {<<"local", e>>}
                   \cup (IF AnyUnplaced(get_dependencies(e, st), st)
                         THEN {<<"early", e>>} ELSE {})
                   \cup (IF IsPin(e) /\ RefUnplaced(e, st)
                         THEN {<<"blind", e>>} ELSE {})]

\* history: the local solve_placement() entered with the positions before
\* has run; the pins that were placed and hold another position or none
NoteMoves(before, st) ==
    [st EXCEPT !.events = @ \cup
        {<<"moved", p>> : p \in {q \in AllPins :
                                   before[q] # None /\ st.figpos[q] # before[q]}}]

\* "if not self.is_placed(): self.solve_placement()" after the dependencies
SolveLocally(e, st) ==
    IF is_placed(e, st) THEN st
    ELSE NoteMoves(st.figpos, solve_placement(e, NoteLocal(e, st)))

PushPath(e, st) ==
    [st EXCEPT !.dep_path = Append(@, e), !.reached = @ \cup {e},
               !.events = @ \cup (IF InSeq(e, st.dep_path)
                                  THEN {<<"repush", e>>} ELSE {})]

\* dep_path.pop() that is left out
PopPath_Keep(st) == st

PopPath(st) == [st EXCEPT !.dep_path = SubSeq(@, 1, Len(@) - 1)]

\* history: the call on e, entered with the path before, returns
NoteReturn(e, before, st) ==
    [st EXCEPT !.events = @ \cup {<<"returned", e>>}
                   \cup (IF is_placed(e, st) THEN {} ELSE {<<"unplaced", e>>})
                   \cup (IF st.dep_path = before THEN {} ELSE {<<"path", e>>})]

\* PlaceableElementBase.solve_placement_resursive(dep_path = st.dep_path)
RECURSIVE solve_placement_resursive(_, _)
RECURSIVE SolveDeps(_, _, _)

\* "self in dep_path" that looks at the caller only
OnPath_Last(e, path) == Len(path) > 0 /\ path[Len(path)] = e

\* "self in dep_path"
OnPath(e, path) == InSeq(e, path)

solve_placement_resursive(e, st) ==
    IF OnPath(e, st.dep_path)
    THEN [st EXCEPT !.err = "CircularDependencyError",
                    !.cycle = Append(st.dep_path, e),
                    !.reached = @ \cup {e}]
    ELSE IF is_placed(e, st)
    THEN NoteReturn(e, st.dep_path, [st EXCEPT !.reached = @ \cup {e}])
    ELSE IF Len(st.dep_path) >= RecursionLimit THEN Raise(st, "RecursionError")
    ELSE Then(Then(Then(SolveDeps(get_dependencies(e, st), 1, PushPath(e, st)),
                        LAMBDA s : SolveLocally(e, s)),
                   PopPath),
              LAMBDA s : NoteReturn(e, st.dep_path, s))

\* the loop over the dependencies that stops after the first
SolveDeps_FirstOnly(deps, i, st) ==
    IF i > 1 \/ i > Len(deps) \/ Failed(st) THEN st
    ELSE SolveDeps(deps, i + 1, solve_placement_resursive(deps[i], st))

\* the loop "for dep in self.get_dependencies()" of the recursive solve
SolveDeps(deps, i, st) ==
    IF i > Len(deps) \/ Failed(st) THEN st
    ELSE SolveDeps(deps, i + 1, solve_placement_resursive(deps[i], st))

\* a call of solve_placement_resursive() with dep_path = None
solve_top(e, st) == solve_placement_resursive(e, [st EXCEPT !.dep_path = <<>>])

----------------------------------------------------------------------------
(* LayoutCreator *)

Max2(a, b) == IF a >= b THEN a ELSE b

\* _calc_inclusive_rlen that leaves out the length needed below the origin
calc_inclusive_rlen_UpperOnly(pin, inc_min, inc_max, st) ==
    IF st.figpos[pin] # Some(0) THEN None
    ELSE Some(Max2(IF ruler_pos2(pin[3]) = 2 THEN 0
                   ELSE Quot(2 * inc_max, 2 - ruler_pos2(pin[3])), 0))

\* LayoutCreator._calc_inclusive_rlen; None when its assertion fails
calc_inclusive_rlen(pin, inc_min, inc_max, st) ==
    IF st.figpos[pin] # Some(0) THEN None
    ELSE Some(Max2(Max2(
            IF ruler_pos2(pin[3]) = 2 THEN 0
            ELSE Quot(2 * inc_max, 2 - ruler_pos2(pin[3])),
            IF ruler_pos2(pin[3]) = 0 THEN 0
            ELSE Quot(2 * (0 - inc_min), ruler_pos2(pin[3]))), 0))

SeqMin(s) == CHOOSE x \in {s[i] : i \in 1..Len(s)} :
                \A j \in 1..Len(s) : x <= s[j]
\* a maximum that looks at the first frame only
SeqMax_First(s) == s[1]

SeqMax(s) == CHOOSE x \in {s[i] : i \in 1..Len(s)} :
                \A j \in 1..Len(s) : x >= s[j]

\* SizeCanvasRuler that leaves the computed length set on the ruler
SizeCanvasRuler_KeepLength(ruler, rlen, st) ==
    IF rlen = None THEN Raise(st, "AssertionError")
    ELSE solve_top(ruler, [st EXCEPT !.warned = @ \/ (Val(rlen) = 0),
                                     !.ruler_length[ruler] = rlen,
                                     !.autosized = @ \cup {ruler}])

\* the branch of _solve_canvas_ruler_placement that takes the computed length
SizeCanvasRuler(ruler, rlen, st) ==
    IF rlen = None THEN Raise(st, "AssertionError")
    ELSE Then(solve_top(ruler, [st EXCEPT !.warned = @ \/ (Val(rlen) = 0),
                                          !.ruler_length[ruler] = rlen,
                                          !.autosized = @ \cup {ruler}]),
              LAMBDA s : [s EXCEPT !.ruler_length[ruler] = None])

\* the if / elif / else of _solve_canvas_ruler_placement
PlaceCanvasRuler(ruler, idx, fs, org, st) ==
    IF Ruler_is_placed(ruler, st) THEN st
    ELSE IF Ruler_is_placeable(ruler, st) THEN solve_top(ruler, st)
    ELSE IF Len(fs) = 0 THEN Raise(st, "ValueError")
    ELSE SizeCanvasRuler(ruler,
            calc_inclusive_rlen(
                get_ruler_pins_by_anchor_name(CanvasName, org)[idx + 1],
                SeqMin([i \in 1..Len(fs) |-> get_extent(fs[i], st)[idx * 2 + 1]]),
                SeqMax([i \in 1..Len(fs) |-> get_extent(fs[i], st)[idx * 2 + 2]]),
                st),
            st)

\* a step of place_all_frames starts: it is entered in the log
Log(kind, name, st) == [st EXCEPT !.log = Append(@, <<kind, name>>)]

\* a step of place_all_frames ended; one that raised is entered as such
Ended(st) ==
    IF Failed(st) THEN Log("raised", st.log[Len(st.log)][2], st) ELSE st

\* LayoutCreator._solve_canvas_ruler_placement(dim); fs is iter_frames()
solve_canvas_ruler_placement(dim, fs, org, st) ==
    Then(Ended(PlaceCanvasRuler(<<CanvasName, IF dim = "width" THEN "h" ELSE "v">>,
                                IF dim = "width" THEN 0 ELSE 1, fs, org,
                                Log("size", dim, st))),
         LAMBDA s : Ended(Ruler_verify_placement(
                        <<CanvasName, IF dim = "width" THEN "h" ELSE "v">>,
                        Log("check", dim, s))))

\* the first loop of place_all_frames left out
ClearFrames_None(fs, i, st) == st

RECURSIVE ClearFrames(_, _, _)
ClearFrames(fs, i, st) ==
    IF i > Len(fs) THEN st
    ELSE ClearFrames(fs, i + 1,
            Frame_clear_placement(fs[i], Log("clear", fs[i], st)))

\* the second loop of place_all_frames with the verification of each frame
\* moved into it
RECURSIVE SolveFrames_AndVerify(_, _, _)
SolveFrames_AndVerify(fs, i, st) ==
    IF i > Len(fs) \/ Failed(st) THEN st
    ELSE SolveFrames_AndVerify(fs, i + 1,
            Then(Ended(solve_top(<<fs[i]>>, Log("solve", fs[i], st))),
                 LAMBDA s : Ended(Frame_verify_placement(fs[i],
                                      Log("verify", fs[i], s)))))

RECURSIVE SolveFrames(_, _, _)
SolveFrames(fs, i, st) ==
    IF i > Len(fs) \/ Failed(st) THEN st
    ELSE SolveFrames(fs, i + 1,
            Ended(solve_top(<<fs[i]>>, Log("solve", fs[i], st))))

RECURSIVE VerifyFrames(_, _, _)
VerifyFrames(fs, i, st) ==
    IF i > Len(fs) \/ Failed(st) THEN st
    ELSE VerifyFrames(fs, i + 1,
            Ended(Frame_verify_placement(fs[i], Log("verify", fs[i], st))))

\* place_all_frames that neither clears the frames nor verifies them
place_all_frames_Unchecked(fs, org, st) ==
    Then(Then(Then(
        Ended(Frame_set_placement(CanvasName, org, Tuple(<<0, 0>>),
            Log("origin", CanvasName,
                Frame_clear_placement(CanvasName, Log("clear", CanvasName, st))))),
        LAMBDA s : SolveFrames(fs, 1, s)),
        LAMBDA s : solve_canvas_ruler_placement("width", fs, org, s)),
        LAMBDA s : solve_canvas_ruler_placement("height", fs, org, s))

\* place_all_frames that places the origin anchor of the canvas at (1.0, 1.0)
place_all_frames_OriginMoved(fs, org, st) ==
    Then(Then(Then(Then(
        Then(Ended(Frame_set_placement(CanvasName, org, Tuple(<<8, 8>>),
                 Log("origin", CanvasName,
                     Frame_clear_placement(CanvasName,
                         Log("clear", CanvasName, st))))),
             LAMBDA s : ClearFrames(fs, 1, s)),
        LAMBDA s : SolveFrames(fs, 1, s)),
        LAMBDA s : VerifyFrames(fs, 1, s)),
        LAMBDA s : solve_canvas_ruler_placement("width", fs, org, s)),
        LAMBDA s : solve_canvas_ruler_placement("height", fs, org, s))

\* LayoutCreator.place_all_frames; fs is iter_frames(), org is self.origin
place_all_frames(fs, org, st) ==
    Then(Then(Then(Then(
        Then(Ended(Frame_set_placement(CanvasName, org, Tuple(<<0, 0>>),
                 Log("origin", CanvasName,
                     Frame_clear_placement(CanvasName,
                         Log("clear", CanvasName, st))))),
             LAMBDA s : ClearFrames(fs, 1, s)),
        LAMBDA s : SolveFrames(fs, 1, s)),
        LAMBDA s : VerifyFrames(fs, 1, s)),
        LAMBDA s : solve_canvas_ruler_placement("width", fs, org, s)),
        LAMBDA s : solve_canvas_ruler_placement("height", fs, org, s))

\* RectangularFrame.get_size: get_width(), get_height()
get_size(f, st) ==
    << Val(get_ruler_length(<<f, "h">>, TRUE, st)),
       Val(get_ruler_length(<<f, "v">>, TRUE, st)) >>

\* LayoutCreator._update_figure_size; m holds the four margins of the layout.
\* figsize receives the positional arguments of figure.set_size_inches, of
\* which the first two are the width and the height the figure takes
update_figure_size(m, st) ==
    IF ~Frame_is_placed(CanvasName, st) THEN Raise(st, "ElementNotPlacedError")
    ELSE [st EXCEPT !.figsize =
            Some(<< m.left + get_size(CanvasName, st)[1] + m.right,
                    m.bottom + get_size(CanvasName, st)[2],
                    m.top >>)]

\* LayoutAxesFrame.create_artist: the figure dimensions fwidth, fheight and
\* the rectangle handed to figure.add_axes, kept as its four numerators
\* (left, bottom over fwidth, fheight; width, height over fwidth, fheight)
create_artist(f, m, fext, aext, st) ==
    IF m.left + (fext[2] - fext[1]) + m.right = 0
       \/ m.bottom + (fext[4] - fext[3]) + m.top = 0
    THEN Raise(st, "ZeroDivisionError")
    ELSE [st EXCEPT !.artists = Append(@,
            [frame |-> f,
             fwidth |-> m.left + (fext[2] - fext[1]) + m.right,
             fheight |-> m.bottom + (fext[4] - fext[3]) + m.top,
             rect |-> << aext[1] - fext[1] + m.left, aext[3] - fext[3] + m.bottom,
                         aext[2] - aext[1], aext[4] - aext[3] >>])]

\* the loop of create_figure_layout over iter_frames()
RECURSIVE CreateArtists(_, _, _, _)
CreateArtists(fs, i, m, st) ==
    IF i > Len(fs) \/ Failed(st) THEN st
    ELSE CreateArtists(fs, i + 1, m,
            create_artist(fs[i], m, get_extent(CanvasName, st),
                          get_extent(fs[i], st), st))

\* LayoutCreator.create_figure_layout(figure, force); usable says that the
\* figure is empty or force is set (_get_figure)
create_figure_layout(fs, org, m, usable, st) ==
    IF ~usable THEN Raise(st, "NonEmptyFigureError")
    ELSE Then(Then(place_all_frames(fs, org, st),
                   LAMBDA s : update_figure_size(m, s)),
              LAMBDA s : CreateArtists(fs, 1, m, s))

\* set_anchor that takes the reference anchor for the anchor name when the
\* ref_anchor is missing, and the other way round
set_anchor_SameAnchor(f, a, ref_frame, ref_anchor, offsets, st) ==
    IF ref_frame = None /\ parent(<<f>>) = None THEN Raise(st, "ValueError")
    ELSE IF lower(a) \notin AnchorNames
            \/ (ref_anchor # None /\ lower(Val(ref_anchor)) \notin AnchorNames)
    THEN Raise(st, "ValueError")
    ELSE [st EXCEPT
            !.figpos_ref =
               [@ EXCEPT ![<<f, "h", anchors_getter(lower(a))[1]>>] =
                            Some(<<IF ref_frame = None THEN CanvasName
                                   ELSE Val(ref_frame),
                                   "h", anchors_getter(lower(a))[1]>>),
                         ![<<f, "v", anchors_getter(lower(a))[2]>>] =
                            Some(<<IF ref_frame = None THEN CanvasName
                                   ELSE Val(ref_frame),
                                   "v", anchors_getter(lower(a))[2]>>)],
            !.figpos_offset =
               [@ EXCEPT ![<<f, "h", anchors_getter(lower(a))[1]>>] =
                            IF offsets = None THEN 0 ELSE Val(offsets)[1],
                         ![<<f, "v", anchors_getter(lower(a))[2]>>] =
                            IF offsets = None THEN 0 ELSE Val(offsets)[2]]]

\* the loop of Frame2DBase.set_anchor that leaves a pin that holds a
\* reference as it is
SetRefs_KeepFirst(pins, prefs, offs, st) ==
    [st EXCEPT
       !.figpos_ref = [p \in AllPins |->
          IF p = pins[1] /\ @[p] = None THEN Some(prefs[1])
          ELSE IF p = pins[2] /\ @[p] = None THEN Some(prefs[2]) ELSE @[p]],
       !.figpos_offset = [p \in AllPins |->
          IF p = pins[1] /\ st.figpos_ref[p] = None THEN offs[1]
          ELSE IF p = pins[2] /\ st.figpos_ref[p] = None THEN offs[2] ELSE @[p]]]

\* the loop of Frame2DBase.set_anchor over (pin, pref, offset)
SetRefs(pins, prefs, offs, st) ==
    [st EXCEPT
       !.figpos_ref = [@ EXCEPT ![pins[1]] = Some(prefs[1]),
                                ![pins[2]] = Some(prefs[2])],
       !.figpos_offset = [@ EXCEPT ![pins[1]] = offs[1], ![pins[2]] = offs[2]]]

\* Frame2DBase.set_anchor; ref_frame, ref_anchor and offsets are optional
set_anchor(f, a, ref_frame, ref_anchor, offsets, st) ==
    IF ref_frame = None /\ parent(<<f>>) = None THEN Raise(st, "ValueError")
    ELSE IF NoAnchor(a) \/ (ref_anchor # None /\ NoAnchor(Val(ref_anchor)))
    THEN Raise(st, "ValueError")
    ELSE SetRefs(get_ruler_pins_by_anchor_name(f, a),
                 get_ruler_pins_by_anchor_name(
                     IF ref_frame = None THEN Val(parent(<<f>>))[1] ELSE Val(ref_frame),
                     IF ref_anchor = None THEN a ELSE Val(ref_anchor)),
                 IF offsets = None THEN <<0, 0>> ELSE Val(offsets),
                 st)

\* Frame2DBase.clear_anchor
clear_anchor(f, a, st) ==
    IF NoAnchor(a) THEN Raise(st, "ValueError")
    ELSE Pin_clear_placement_ref(get_ruler_pins_by_anchor_name(f, a)[2],
            Pin_clear_placement_ref(get_ruler_pins_by_anchor_name(f, a)[1], st))

\* RulerBase.set_ruler_length
set_ruler_length(r, value, st) ==
    IF value # None /\ Val(value) < 0 THEN Raise(st, "ValueError")
    ELSE [st EXCEPT !.ruler_length[r] = value]

\* RectangularFrame.set_size: set_width, then set_height
set_size(f, width, height, st) ==
    Then(set_ruler_length(<<f, "h">>, width, st),
         LAMBDA s : set_ruler_length(<<f, "v">>, height, s))

\* add_frame that takes any name that is not registered
add_frame_AnyName(name, fs) ==
    IF InSeq(name, fs) THEN [err |-> "ValueError", frames |-> fs]
    ELSE [err |-> "none", frames |-> Append(fs, name)]

\* LayoutCreator.add_frame(name), fs the names of self.__frames in insertion
\* order: the two tests of add_frame, then set_name in the constructor of the
\* frame, then the insertion
add_frame(name, fs) ==
    IF InSeq(name, fs) \/ name = "figure" \/ HasSlash(name)
    THEN [err |-> "ValueError", frames |-> fs]
    ELSE [err |-> "none", frames |-> Append(fs, name)]

----------------------------------------------------------------------------
(* The state machine: one action per call of the public interface *)

\* the object graph of the current state, for a run iterating sets in order ord
Graph(ord) ==
    [figpos |-> figpos, figpos_ref |-> figpos_ref, figpos_offset |-> figpos_offset,
     ruler_length |-> ruler_length, err |-> "none", dep_path |-> <<>>,
     cycle |-> <<>>, reached |-> {}, ord |-> ord, exact |-> TRUE,
     warned |-> FALSE, autosized |-> {}, events |-> {}, log |-> <<>>,
     figsize |-> None, artists |-> <<>>]

Outputs(st) ==
    [dep_path |-> st.dep_path, cycle |-> st.cycle, reached |-> st.reached,
     exact |-> st.exact, warned |-> st.warned, autosized |-> st.autosized,
     events |-> st.events, log |-> st.log, figsize |-> st.figsize,
     artists |-> st.artists]

NoOutputs == Outputs(Graph(init_pins))

\* the call named name with argument arg ran and left the graph st
Commit(name, arg, st) ==
    /\ figpos' = st.figpos
    /\ figpos_ref' = st.figpos_ref
    /\ figpos_offset' = st.figpos_offset
    /\ ruler_length' = st.ruler_length
    /\ op' = [name |-> name, arg |-> arg]
    /\ err' = st.err
    /\ out' = Outputs(st)

\* LayoutCreator.__init__: the canvas frame, its size, an empty registry
InitWith(origins, canvas_sizes) ==
    /\ frames = <<>>
    /\ origin \in origins
    /\ figpos = [p \in AllPins |-> None]
    /\ figpos_ref = [p \in AllPins |-> None]
    /\ figpos_offset = [p \in AllPins |-> 0]
    /\ \E cs \in canvas_sizes :
         ruler_length = [r \in AllRulers |->
            IF r = <<CanvasName, "h">> THEN cs[1]
            ELSE IF r = <<CanvasName, "v">> THEN cs[2] ELSE None]
    /\ op = [name |-> "__init__", arg |-> <<>>]
    /\ err = "none"
    /\ out = NoOutputs
    /\ nDecl = 0

\* LayoutCreator.add_frame(name)
AddFrame(name) ==
    /\ err' = add_frame(name, frames).err
    /\ frames' = add_frame(name, frames).frames
    /\ op' = [name |-> "add_frame", arg |-> <<>>]
    /\ out' = NoOutputs
    /\ UNCHANGED <<origin, figpos, figpos_ref, figpos_offset, ruler_length, nDecl>>

\* frame.set_anchor(a, ref_frame, ref_anchor, offsets)
SetAnchor(f, a, ref_frame, ref_anchor, offsets) ==
    /\ nDecl < MaxDecl
    /\ nDecl' = nDecl + 1
    /\ Commit("set_anchor", <<>>,
              set_anchor(f, a, ref_frame, ref_anchor, offsets, Graph(init_pins)))
    /\ UNCHANGED <<frames, origin>>

\* frame.clear_anchor(a)
ClearAnchor(f, a) ==
    /\ nDecl < MaxDecl
    /\ nDecl' = nDecl + 1
    /\ Commit("clear_anchor", <<>>, clear_anchor(f, a, Graph(init_pins)))
    /\ UNCHANGED <<frames, origin>>

\* frame.set_placement(a, position)
SetPlacement(f, a, position) ==
    /\ nDecl < MaxDecl
    /\ nDecl' = nDecl + 1
    /\ Commit("set_placement", <<>>,
              Frame_set_placement(f, a, position, Graph(init_pins)))
    /\ UNCHANGED <<frames, origin>>

\* frame.set_size(width, height)
SetSize(f, width, height) ==
    /\ nDecl < MaxDecl
    /\ nDecl' = nDecl + 1
    /\ Commit("set_size", <<>>, set_size(f, width, height, Graph(init_pins)))
    /\ UNCHANGED <<frames, origin>>

\* LayoutCreator.place_all_frames()
PlaceAllFrames ==
    /\ \E ord \in SetOrders :
         Commit("place_all_frames", <<>>, place_all_frames(frames, origin, Graph(ord)))
    /\ UNCHANGED <<frames, origin, nDecl>>

\* LayoutCreator.create_figure_layout(figure, force = force) of a layout
\* constructed with the margins m
CreateFigureLayout(m, usable) ==
    /\ \E ord \in SetOrders :
         Commit("create_figure_layout", m,
                create_figure_layout(frames, origin, m, usable, Graph(ord)))
    /\ UNCHANGED <<frames, origin, nDecl>>

\* element.solve_placement_resursive()
SolveRecursive(e) ==
    /\ \E ord \in SetOrders :
         Commit("solve_placement_resursive", e, solve_top(e, Graph(ord)))
    /\ UNCHANGED <<frames, origin, nDecl>>

\* element.solve_placement(), called directly
SolveLocal(e) ==
    /\ \E ord \in SetOrders :
         Commit("solve_placement", e, solve_placement(e, Graph(ord)))
    /\ UNCHANGED <<frames, origin, nDecl>>

\* element.verify_placement()
VerifyPlacement(e) ==
    /\ Commit("verify_placement", e, verify_placement(e, Graph(init_pins)))
    /\ UNCHANGED <<frames, origin, nDecl>>

Registered == {frames[i] : i \in 1..Len(frames)}

----------------------------------------------------------------------------
(* The declarations the specifications draw from.  Lengths and offsets are *)
(* multiples of 4 (half an inch), so that midpoints stay on the grid.      *)

\* arguments (anchor, ref_frame, ref_anchor, offsets) of set_anchor
AnchorMenu ==
    { <<"bottomleft", None, None, Some(<<4, 8>>)>>,
      <<"center", None, None, None>> }
    \cup { <<"bottomleft", Some(g), Some("topright"), Some(<<4, 8>>)>> : g \in Registered }
    \cup { <<"topright", Some(g), Some("center"), None>> : g \in Registered }

SizesIn == {<<Some(16), Some(8)>>}
PositionsIn == {<<4, 4>>}

DeclareAnchor ==
    \E f \in Registered, m \in AnchorMenu : SetAnchor(f, m[1], m[2], m[3], m[4])

DeclareSize == \E f \in Registered, sz \in SizesIn : SetSize(f, sz[1], sz[2])

DeclarePlacement ==
    \E f \in Registered, pos \in PositionsIn :
        SetPlacement(f, "bottomleft", Tuple(pos))

Register == \E name \in FrameNames \ Registered : AddFrame(name)

SolveFrame == \E f \in Registered : SolveRecursive(<<f>>)

VerifyFrame == \E f \in Registered : VerifyPlacement(<<f>>)

\* every halving done by a ruler was exact: the integer grid loses nothing
ExactArithmetic == out.exact

----------------------------------------------------------------------------
(* Specification SpecLayout: layouts of up to two frames, declared from    *)
(* the menu and solved by place_all_frames().                              *)

OriginsIn == {"bottomleft", "center"}
CanvasSizesIn == {<<None, None>>, <<Some(32), Some(32)>>}

InitLayout == InitWith(OriginsIn, CanvasSizesIn)

\* the calls that solve or verify placements
SolverOps == {"place_all_frames", "solve_placement_resursive", "solve_placement",
              "verify_placement", "create_figure_layout"}

\* the runs explored declare the layout first and solve it afterwards
Declaring == op.name \notin SolverOps

NextLayout ==
    \/ Declaring /\ Register
    \/ Declaring /\ DeclareAnchor
    \/ Declaring /\ DeclareSize
    \/ Declaring /\ DeclarePlacement
    \/ PlaceAllFrames

SpecLayout == InitLayout /\ [][NextLayout]_vars

----------------------------------------------------------------------------
(* Claims about place_all_frames(), checked under SpecLayout *)

LayoutFrames == Registered \cup {CanvasName}
LayoutPins == {p \in AllPins : p[1] \in LayoutFrames}
LayoutRulers == {r \in AllRulers : r[1] \in LayoutFrames}

Placed == op.name = "place_all_frames" /\ err = "none"

\* C1: after place_all_frames() returned without raising, every pin of a
\* registered frame or of the canvas that has a reference is placed, its
\* reference is placed, and the two positions differ by exactly the offset
C1_ReferencesHold ==
    Placed =>
        \A p \in LayoutPins :
            figpos_ref[p] # None =>
                /\ figpos[p] # None
                /\ figpos[Val(figpos_ref[p])] # None
                /\ Val(figpos[p]) - Val(figpos[Val(figpos_ref[p])]) = figpos_offset[p]

\* a solved layout in which a frame is anchored, with an offset, to the other
C1_Witness ==
    /\ Placed
    /\ \E p \in LayoutPins :
          /\ figpos_ref[p] # None
          /\ Val(figpos_ref[p])[1] \in Registered \ {p[1]}
          /\ figpos_offset[p] # 0

\* C2: after place_all_frames() returned without raising, both rulers of
\* every registered frame and of the canvas have their three pins placed,
\* low + high = 2 * mid and high >= low
C2_RulersConsistent ==
    Placed =>
        \A r \in LayoutRulers :
            /\ \A p \in RulerPins(r) : figpos[p] # None
            /\ Val(figpos[<<r[1], r[2], "pmin">>]) + Val(figpos[<<r[1], r[2], "pmax">>])
                 = 2 * Val(figpos[<<r[1], r[2], "pmid">>])
            /\ Val(figpos[<<r[1], r[2], "pmax">>]) >= Val(figpos[<<r[1], r[2], "pmin">>])

\* a solved layout of two frames, one with a length computed from two anchors
C2_Witness ==
    /\ Placed
    /\ Len(frames) = 2
    /\ \E r \in LayoutRulers :
          /\ r[1] \in Registered
          /\ ruler_length[r] = None
          /\ Val(figpos[<<r[1], r[2], "pmax">>]) > Val(figpos[<<r[1], r[2], "pmin">>])

\* C4: place_all_frames() called again on a layout it has just solved, with
\* no declaration in between, succeeds again and leaves every position as it was
C4_Idempotent ==
    [][(Placed /\ op'.name = "place_all_frames")
          => (err' = "none" /\ figpos' = figpos)]_vars

\* a solved layout of two frames in which a canvas axis was sized automatically
C4_Witness ==
    /\ Placed
    /\ Len(frames) = 2
    /\ out.autosized # {}

Reverse(s) == [i \in 1..Len(s) |-> s[Len(s) + 1 - i]]

\* what a caller sees of a call: that it raised, or the positions it left
Outcome(st) == IF Failed(st) THEN <<"raised">> ELSE <<"returned", st.figpos>>

\* C5: the outcome of place_all_frames() is the same for every order of
\* registration of the same frames: the same positions, or a failure in each
C5_OrderIndependent ==
    Cardinality({Outcome(place_all_frames(fs, origin, Graph(ord))) :
                    fs \in {frames, Reverse(frames)}, ord \in SetOrders}) = 1

\* a solved layout in which the frame registered first is anchored to the
\* frame registered second
C5_Witness ==
    /\ Placed
    /\ Len(frames) = 2
    /\ \E p \in FramePins(frames[1]) :
          figpos_ref[p] # None /\ Val(figpos_ref[p])[1] = frames[2]

----------------------------------------------------------------------------
(* Specification SpecSolve: layouts declared from the menu, then solved    *)
(* and verified frame by frame, or by place_all_frames().                  *)

\* set_anchor on the anchor set_placement is given, to the same anchor of the
\* other frame: the horizontal offset agrees with equal positions, the
\* vertical one does not
DeclareConflict ==
    \E f \in Registered : \E g \in Registered \ {f} :
        SetAnchor(f, "bottomleft", Some(g), None, Some(<<0, 8>>))

InitSolve == InitWith({"bottomleft"}, {<<None, None>>})

NextSolve ==
    \/ Declaring /\ Register
    \/ Declaring /\ DeclareAnchor
    \/ Declaring /\ DeclareConflict
    \/ Declaring /\ DeclareSize
    \/ Declaring /\ DeclarePlacement
    \/ PlaceAllFrames
    \/ SolveFrame
    \/ VerifyFrame

SpecSolve == InitSolve /\ [][NextSolve]_vars

----------------------------------------------------------------------------
(* Claims about the recursive solve and the verification, under SpecSolve *)

PlacementKinds ==
    {"CircularDependencyError", "DependencyUnplacedError",
     "IncomplyingPlacementError", "PlacementUnsolvableError"}

RegisteredPins == {p \in AllPins : p[1] \in Registered}

\* both frames are registered, each has an anchor, and every anchor of one
\* refers to the other
MutualOnly ==
    /\ Registered = FrameNames
    /\ \A f \in Registered :
          /\ \E p \in FramePins(f) : figpos_ref[p] # None
          /\ \A p \in FramePins(f) :
                figpos_ref[p] # None => Val(figpos_ref[p])[1] \in Registered \ {f}

\* the message of the CircularDependencyError names an element of frame f
CycleNames(f) ==
    \E i \in 1..Len(out.cycle) : InSeq(f, global_name(out.cycle[i]))

Declarations == {"add_frame", "set_anchor", "set_size", "set_placement"}

\* pin p is placed, has a placed reference, and is not at reference + offset
OverConstrained(p) ==
    /\ figpos_ref[p] # None
    /\ figpos[p] # None
    /\ figpos[Val(figpos_ref[p])] # None
    /\ Val(figpos[p]) - Val(figpos[Val(figpos_ref[p])]) # figpos_offset[p]

\* every pin of frame f is placed, and so is the reference of each
Settled(f) ==
    \A q \in FramePins(f) :
        /\ figpos[q] # None
        /\ figpos_ref[q] # None => figpos[Val(figpos_ref[q])] # None

\* what verify_placement() raises on element e in the current state
VerifyErr(e) == verify_placement(e, Graph(init_pins)).err

DepsOf(e) ==
    LET deps == get_dependencies(e, Graph(init_pins))
    IN {deps[i] : i \in 1..Len(deps)}

DepsOfAll(S) == UNION {DepsOf(e) : e \in S}

\* S and everything S depends on, directly or not
RECURSIVE Closure(_)
Closure(S) == IF DepsOfAll(S) \subseteq S THEN S ELSE Closure(S \cup DepsOfAll(S))

\* what is left of S after removing, again and again, the elements that
\* depend on nothing left: the elements on or leading to a cycle
RECURSIVE Peel(_)
Peel(S) ==
    IF \A d \in S : DepsOf(d) \cap S # {} THEN S
    ELSE Peel({d \in S : DepsOf(d) \cap S # {}})

\* nothing that e depends on, directly or not, depends on itself
Acyclic(e) == Peel(Closure({e})) = {}

\* the pieces of information ruler r has: its pins that are placed or have a
\* reference, and one more when its explicit length is set
Information(r) ==
    Cardinality({p \in RulerPins(r) : figpos[p] # None \/ figpos_ref[p] # None})
        + (IF ruler_length[r] # None THEN 1 ELSE 0)

\* one of the rulers in reached has fewer than two pieces of information
ShortRuler(reached) == \E r \in AllRulers \cap reached : Information(r) < 2

\* C7: on an acyclic dependency graph solve_placement_resursive() on a frame
\* raises PlacementUnsolvableError exactly when a ruler it reached had fewer
\* than two pieces of information before the call; otherwise it returns with
\* every pin of the frame placed
C7_EnoughInformation ==
    [][(op'.name = "solve_placement_resursive" /\ Acyclic(op'.arg))
       => (/\ (err' = "PlacementUnsolvableError") <=> ShortRuler(out'.reached)
           /\ ~ShortRuler(out'.reached) =>
                 /\ err' = "none"
                 /\ \A p \in FramePins(op'.arg[1]) : figpos'[p] # None)]_vars

\* a solve that reached both rulers of the frame, a pin of another frame, and
\* returned with the frame placed
C7_Witness ==
    /\ op.name = "solve_placement_resursive"
    /\ err = "none"
    /\ {<<op.arg[1], "h">>, <<op.arg[1], "v">>} \subseteq out.reached
    /\ \E e \in out.reached : e[1] # op.arg[1]
    /\ \A p \in FramePins(op.arg[1]) : figpos[p] # None

\* C8: whatever place_all_frames(), solve_placement_resursive() or
\* verify_placement() raises is one of the four placement error kinds
C8_PlacementKindsOnly ==
    op.name \in SolverOps => err \in PlacementKinds \cup {"none"}

----------------------------------------------------------------------------
(* Specification SpecExample: the two frames of the LayoutCreator synopsis, *)
(* the first placed directly and sized, the second anchored to the first   *)
(* by two anchors, each solved by solve_placement_resursive().             *)

\* (0, 0) and (0.5, 1.0)
ExamplePositions == {<<0, 0>>, <<4, 8>>}

\* (4, 2.5) and (2, 1)
ExampleSizes == {<<Some(32), Some(20)>>, <<Some(16), Some(8)>>}

\* (anchor, ref_anchor, offsets): "bottomleft" to "right" by (0.5, 0.0) and
\* "topright" to the same anchor by (2.5, 0.0)
ExampleAnchors ==
    { <<"bottomleft", Some("right"), Some(<<4, 0>>)>>,
      <<"topright", None, Some(<<20, 0>>)>> }

ExamplePlacement ==
    \E f \in Registered, pos \in ExamplePositions :
        SetPlacement(f, "bottomleft", Tuple(pos))

ExampleSize == \E f \in Registered, sz \in ExampleSizes : SetSize(f, sz[1], sz[2])

ExampleAnchor ==
    \E f \in Registered, m \in ExampleAnchors : \E g \in Registered \ {f} :
        SetAnchor(f, m[1], Some(g), m[2], m[3])

InitExample == InitWith({"bottomleft"}, {<<None, None>>})

NextExample ==
    \/ Declaring /\ Register
    \/ Declaring /\ ExamplePlacement
    \/ Declaring /\ ExampleSize
    \/ Declaring /\ ExampleAnchor
    \/ SolveFrame

SpecExample == InitExample /\ [][NextExample]_vars

----------------------------------------------------------------------------
(* Claims about the worked examples, under SpecExample *)

\* twice the fraction of the width at which anchor a lies
HFraction2(a) ==
    IF a \in {"bottomleft", "left", "topleft"} THEN 0
    ELSE IF a \in {"bottom", "center", "top"} THEN 1 ELSE 2

\* twice the fraction of the height at which anchor a lies
VFraction2(a) ==
    IF a \in {"bottomleft", "bottom", "bottomright"} THEN 0
    ELSE IF a \in {"left", "center", "right"} THEN 1 ELSE 2

\* frame f has its bottomleft placed at (x, y), its size set to (w, h), no
\* other pin placed and no anchor
CornerAndSize(f, x, y, w, h) ==
    /\ \A p \in FramePins(f) :
          /\ figpos_ref[p] = None
          /\ figpos[p] = IF p[3] # "pmin" THEN None
                         ELSE IF p[2] = "h" THEN Some(x) ELSE Some(y)
    /\ ruler_length[<<f, "h">>] = Some(w)
    /\ ruler_length[<<f, "v">>] = Some(h)

\* pin p has reference ref with offset off
RefIs(p, ref, off) == figpos_ref[p] = Some(ref) /\ figpos_offset[p] = off

\* the position of anchor a of frame f is (x, y)
AnchorAt(f, a, x, y) ==
    /\ figpos[get_ruler_pins_by_anchor_name(f, a)[1]] = Some(x)
    /\ figpos[get_ruler_pins_by_anchor_name(f, a)[2]] = Some(y)

\* C9: solve_placement_resursive() on a frame with only its bottomleft set,
\* at (x, y), and its size set to (w, h) places every anchor at
\* (x + a * w, y + b * h) for its grid fractions a and b; with (0, 0) and
\* (4, 2.5) the topright is at (4.0, 2.5) and the center at (2.0, 1.25)
C9_AnchorGrid ==
    [][\A f \in Registered, pos \in ExamplePositions, sz \in ExampleSizes :
          (/\ CornerAndSize(f, pos[1], pos[2], Val(sz[1]), Val(sz[2]))
           /\ op' = [name |-> "solve_placement_resursive", arg |-> <<f>>])
          => (/\ err' = "none"
              /\ \A a \in AnchorNames :
                    AnchorAt(f, a,
                             pos[1] + (HFraction2(a) * Val(sz[1])) \div 2,
                             pos[2] + (VFraction2(a) * Val(sz[2])) \div 2)'
              /\ (pos = <<0, 0>> /\ sz = <<Some(32), Some(20)>>)
                    => (AnchorAt(f, "topright", 32, 20)
                        /\ AnchorAt(f, "center", 16, 10))')]_vars

\* the frame with bottomleft at (0, 0) and size (4, 2.5) has been solved
C9_Witness ==
    /\ op.name = "solve_placement_resursive"
    /\ err = "none"
    /\ \A p \in FramePins(op.arg[1]) : figpos_ref[p] = None
    /\ ruler_length[<<op.arg[1], "h">>] = Some(32)
    /\ ruler_length[<<op.arg[1], "v">>] = Some(20)
    /\ AnchorAt(op.arg[1], "bottomleft", 0, 0)
    /\ AnchorAt(op.arg[1], "topright", 32, 20)
    /\ {<<op.arg[1], "h">>, <<op.arg[1], "v">>} \subseteq out.reached

\* frame b is unplaced and unsized, its bottomleft is anchored to the right
\* of a by (0.5, 0.0) and its topright to the topright of a by (2.5, 0.0)
TwoAnchors(b, a) ==
    /\ \A p \in FramePins(b) : figpos[p] = None
    /\ ruler_length[<<b, "h">>] = None
    /\ ruler_length[<<b, "v">>] = None
    /\ RefIs(<<b, "h", "pmin">>, <<a, "h", "pmax">>, 4)
    /\ RefIs(<<b, "v", "pmin">>, <<a, "v", "pmid">>, 0)
    /\ RefIs(<<b, "h", "pmax">>, <<a, "h", "pmax">>, 20)
    /\ RefIs(<<b, "v", "pmax">>, <<a, "v", "pmax">>, 0)
    /\ figpos_ref[<<b, "h", "pmid">>] = None
    /\ figpos_ref[<<b, "v", "pmid">>] = None

\* C10 as stated: with A at (0, 0) sized (4, 2.5) and B anchored as above,
\* solving B gives B's bottomleft = (4.5, 0.0) and topright = (9.0, 2.5)
C10_AsStated ==
    [][\A a \in Registered, b \in Registered :
          (/\ CornerAndSize(a, 0, 0, 32, 20)
           /\ TwoAnchors(b, a)
           /\ op' = [name |-> "solve_placement_resursive", arg |-> <<b>>])
          => (/\ err' = "none"
              /\ AnchorAt(b, "bottomleft", 36, 0)'
              /\ AnchorAt(b, "topright", 72, 20)')]_vars

\* C10 amended: with A at (0, 0) sized (4, 2.5) and B anchored as above,
\* solving B gives B's bottomleft = (4.5, 1.25) and topright = (6.5, 2.5),
\* and places A with topright = (4.0, 2.5)
C10_TopHalf ==
    [][\A a \in Registered, b \in Registered :
          (/\ CornerAndSize(a, 0, 0, 32, 20)
           /\ TwoAnchors(b, a)
           /\ op' = [name |-> "solve_placement_resursive", arg |-> <<b>>])
          => (/\ err' = "none"
              /\ AnchorAt(b, "bottomleft", 36, 10)'
              /\ AnchorAt(b, "topright", 52, 20)'
              /\ AnchorAt(a, "topright", 32, 20)')]_vars

\* frame B of the example has been solved through its two anchors to A
C10_Witness ==
    /\ op.name = "solve_placement_resursive"
    /\ err = "none"
    /\ \E a \in Registered \ {op.arg[1]} :
          /\ RefIs(<<op.arg[1], "h", "pmin">>, <<a, "h", "pmax">>, 4)
          /\ RefIs(<<op.arg[1], "v", "pmin">>, <<a, "v", "pmid">>, 0)
          /\ RefIs(<<op.arg[1], "h", "pmax">>, <<a, "h", "pmax">>, 20)
          /\ RefIs(<<op.arg[1], "v", "pmax">>, <<a, "v", "pmax">>, 0)
          /\ ruler_length[<<a, "h">>] = Some(32)
          /\ ruler_length[<<a, "v">>] = Some(20)
          /\ AnchorAt(a, "bottomleft", 0, 0)
    /\ ruler_length[<<op.arg[1], "h">>] = None
    /\ ruler_length[<<op.arg[1], "v">>] = None
    /\ {<<op.arg[1], "h">>, <<op.arg[1], "v">>} \subseteq out.reached
    /\ AnchorAt(op.arg[1], "center", 44, 15)

----------------------------------------------------------------------------
(* Specification SpecCanvas: frames anchored to the origin anchor of a     *)
(* canvas that is sized automatically on at least one axis, solved by      *)
(* place_all_frames().  The canvas itself may be anchored to a frame.      *)

CanvasOriginsIn == {"bottomleft", "center", "topright"}

\* canvas_width, canvas_height: both automatic, or the width given (4.0)
AutoSizesIn == {<<None, None>>, <<Some(32), None>>}

\* offsets from the origin: (1.0, 0.0) and (-6.0, -2.0)
OriginOffsets == {<<8, 0>>, <<0 - 48, 0 - 16>>}

\* sizes (4.0, 2.0) and (0, 0)
CanvasFrameSizes == {<<Some(32), Some(16)>>, <<Some(0), Some(0)>>}

\* frame.set_anchor("bottomleft", ref_anchor = origin, offsets = ...): the
\* reference frame is the parent, the canvas
AnchorToOrigin ==
    \E f \in Registered, offs \in OriginOffsets :
        SetAnchor(f, "bottomleft", None, Some(origin), Some(offs))

SizeOnCanvas ==
    \E f \in Registered, sz \in CanvasFrameSizes : SetSize(f, sz[1], sz[2])

\* canvas_frame.set_anchor("bottomleft", frame)
AnchorCanvas ==
    \E g \in Registered : SetAnchor(CanvasName, "bottomleft", Some(g), None, None)

InitCanvas == InitWith(CanvasOriginsIn, AutoSizesIn)

NextCanvas ==
    \/ Declaring /\ Register
    \/ Declaring /\ AnchorToOrigin
    \/ Declaring /\ SizeOnCanvas
    \/ Declaring /\ AnchorCanvas
    \/ PlaceAllFrames

SpecCanvas == InitCanvas /\ [][NextCanvas]_vars

----------------------------------------------------------------------------
(* Claims about the automatic sizing of the canvas, under SpecCanvas *)

\* twice the axis position of the origin anchor's pin on axis ax
OriginPos2(ax) ==
    IF ax = "h"
    THEN (IF origin \in {"bottomleft", "left", "topleft"} THEN 0
          ELSE IF origin \in {"bottom", "center", "top"} THEN 1 ELSE 2)
    ELSE (IF origin \in {"bottomleft", "bottom", "bottomright"} THEN 0
          ELSE IF origin \in {"left", "center", "right"} THEN 1 ELSE 2)

Low(f, ax) == Val(figpos[<<f, ax, "pmin">>])
High(f, ax) == Val(figpos[<<f, ax, "pmax">>])

\* the largest high extent and the smallest low extent of the registered frames
MaxHigh(ax) ==
    CHOOSE x \in {High(f, ax) : f \in Registered} :
        \A f \in Registered : High(f, ax) <= x

MinLow(ax) ==
    CHOOSE x \in {Low(f, ax) : f \in Registered} :
        \A f \in Registered : x <= Low(f, ax)

NeededHigh(ax) ==
    IF OriginPos2(ax) = 2 THEN 0
    ELSE IF OriginPos2(ax) = 1 THEN 2 * MaxHigh(ax) ELSE MaxHigh(ax)

NeededLow(ax) ==
    IF OriginPos2(ax) = 0 THEN 0
    ELSE IF OriginPos2(ax) = 1 THEN 2 * (0 - MinLow(ax)) ELSE 0 - MinLow(ax)

\* max(needed_high, needed_low, 0)
NeededLength(ax) ==
    IF NeededHigh(ax) >= NeededLow(ax) /\ NeededHigh(ax) >= 0 THEN NeededHigh(ax)
    ELSE IF NeededLow(ax) >= 0 THEN NeededLow(ax) ELSE 0

\* C11: a canvas axis place_all_frames() sized automatically has its three
\* pins placed with pmax - pmin = max(needed_high, needed_low, 0) and the
\* origin pin at 0; with origin bottomleft and one frame of horizontal extent
\* [1, 5] the horizontal length is 5
C11_InclusiveLength ==
    op.name = "place_all_frames" =>
        \A r \in out.autosized :
            /\ \A p \in RulerPins(r) : figpos[p] # None
            /\ High(r[1], r[2]) - Low(r[1], r[2]) = NeededLength(r[2])
            /\ 2 * (0 - Low(r[1], r[2])) = OriginPos2(r[2]) * NeededLength(r[2])
            /\ (/\ origin = "bottomleft"
                /\ r[2] = "h"
                /\ Len(frames) = 1
                /\ Low(frames[1], "h") = 8
                /\ High(frames[1], "h") = 40)
                  => High(r[1], "h") - Low(r[1], "h") = 40

\* the canvas was sized on both axes around two frames on either side of a
\* centre origin
C11_Witness ==
    /\ Placed
    /\ origin = "center"
    /\ out.autosized = {<<CanvasName, "h">>, <<CanvasName, "v">>}
    /\ Len(frames) = 2
    /\ NeededLow("h") > 0
    /\ NeededHigh("h") > 0
    /\ High(CanvasName, "h") - Low(CanvasName, "h") = 96

\* canvas axis ax has neither an explicit length nor an anchored pin
Automatic(ax) ==
    /\ ruler_length[<<CanvasName, ax>>] = None
    /\ \A p \in RulerPins(<<CanvasName, ax>>) : figpos_ref[p] = None

\* the canvas ruler of axis ax is placed with zero length at the origin
ZeroLength(ax) == \A p \in RulerPins(<<CanvasName, ax>>) : figpos[p] = Some(0)

\* C12: when the automatic size of a canvas axis is 0, for a degenerate
\* layout and for a layout with no frame, place_all_frames() does not raise,
\* warns, and places the canvas ruler with all three pins at 0
C12_ZeroLengthWarns ==
    op.name = "place_all_frames" =>
        \A ax \in {"h", "v"} :
            /\ (<<CanvasName, ax>> \in out.autosized /\ NeededLength(ax) = 0)
                  => (err = "none" /\ out.warned /\ ZeroLength(ax))
            /\ (Len(frames) = 0 /\ Automatic(ax))
                  => (err = "none" /\ out.warned /\ ZeroLength(ax))

\* C13: a canvas axis place_all_frames() sized automatically has its ruler
\* placed, get_ruler_length(allow_calculated = False) gives None, and
\* get_ruler_length(allow_calculated = True) gives the computed length,
\* whatever the iteration order of the placed pins
C13_LengthCleared ==
    op.name = "place_all_frames" =>
        \A r \in out.autosized : \A ord \in SetOrders :
            /\ Ruler_is_placed(r, Graph(ord))
            /\ get_ruler_length(r, FALSE, Graph(ord)) = None
            /\ get_ruler_length(r, TRUE, Graph(ord)) = Some(NeededLength(r[2]))

\* the canvas height was sized automatically to a positive length while the
\* width was given
C13_Witness ==
    /\ Placed
    /\ out.autosized = {<<CanvasName, "v">>}
    /\ ruler_length[<<CanvasName, "h">>] # None
    /\ High(CanvasName, "v") - Low(CanvasName, "v") > 0

\* the canvas ruler of axis ax, with the origin pin at 0 and length len,
\* spans every registered frame (both sides doubled)
Contains(ax, len) ==
    /\ 0 - OriginPos2(ax) * len <= 2 * MinLow(ax)
    /\ (2 - OriginPos2(ax)) * len >= 2 * MaxHigh(ax)

Abs(x) == IF x < 0 THEN 0 - x ELSE x

\* lengths up to one that spans all frames from any origin, if any does
CandidateLengths(ax) == 0..(2 * (Abs(MinLow(ax)) + Abs(MaxHigh(ax))))

\* C14: when some canvas length with the origin at 0 contains all registered
\* frames on an axis that place_all_frames() sized automatically, the canvas
\* extent contains the extent of every registered frame and no shorter
\* length would
C14_SmallestEnclosing ==
    op.name = "place_all_frames" =>
        \A r \in out.autosized :
            (\E len \in CandidateLengths(r[2]) : Contains(r[2], len))
            => (/\ \A f \in Registered :
                      /\ Low(CanvasName, r[2]) <= Low(f, r[2])
                      /\ High(CanvasName, r[2]) >= High(f, r[2])
                /\ Contains(r[2], High(CanvasName, r[2]) - Low(CanvasName, r[2]))
                /\ \A len \in 0..(High(CanvasName, r[2]) - Low(CanvasName, r[2]) - 1) :
                      ~Contains(r[2], len))

\* a canvas sized around two frames of different extents, one of them
\* reaching further on each side than the other
C14_Witness ==
    /\ Placed
    /\ Len(frames) = 2
    /\ <<CanvasName, "h">> \in out.autosized
    /\ Low(frames[1], "h") # Low(frames[2], "h")
    /\ High(frames[2], "h") > High(frames[1], "h")
    /\ Low(CanvasName, "h") = MinLow("h")
    /\ High(CanvasName, "h") > MaxHigh("h")

\* the two pins of the canvas behind the origin anchor
OriginPins ==
    {get_ruler_pins_by_anchor_name(CanvasName, origin)[i] : i \in 1..2}

\* C15 as stated: place_all_frames(), returning or raising, leaves the
\* reference and the offset of every pin of the registered frames and of
\* the canvas, and every explicit ruler length, as they were
C15_AsStated ==
    [][op'.name = "place_all_frames"
       => (/\ \A p \in LayoutPins :
                 /\ figpos_ref'[p] = figpos_ref[p]
                 /\ figpos_offset'[p] = figpos_offset[p]
           /\ ruler_length' = ruler_length)]_vars

\* C15 amended: place_all_frames(), returning or raising, leaves the
\* reference and the offset of every pin of the registered frames and of the
\* canvas as they were, except the two pins of the canvas origin anchor,
\* which lose their reference and offset; every explicit ruler length is
\* as it was
C15_ConstraintsKept ==
    [][op'.name = "place_all_frames"
       => (/\ \A p \in LayoutPins \ OriginPins :
                 /\ figpos_ref'[p] = figpos_ref[p]
                 /\ figpos_offset'[p] = figpos_offset[p]
           /\ \A p \in OriginPins :
                 figpos_ref'[p] = None /\ figpos_offset'[p] = 0
           /\ ruler_length' = ruler_length)]_vars

\* place_all_frames() returned on a layout with a sized frame anchored at an
\* offset and an anchored canvas pin that is not of the origin anchor
C15_Witness ==
    /\ op.name = "place_all_frames"
    /\ err = "none"
    /\ \E r \in AllRulers : ruler_length[r] # None
    /\ \E p \in FramePins(CanvasName) \ OriginPins : figpos_ref[p] # None
    /\ \E p \in RegisteredPins : figpos_ref[p] # None /\ figpos_offset[p] # 0

----------------------------------------------------------------------------
(* Specification SpecDeclare: the declarations of the frames and of the    *)
(* canvas, with anchor names in any case and names that are no anchor,     *)
(* positions as tuples and as lists, and the solve of single frames.       *)

\* arguments (anchor, ref_frame, ref_anchor, offsets) of set_anchor
DeclareMenu ==
    { <<"bottomleft", None, None, None>>,
      <<"TopRight", None, Some("CENTER"), Some(<<4, 8>>)>>,
      <<"Middle", None, None, None>> }
    \cup { <<"CENTER", Some(g), None, Some(<<4, 8>>)>> : g \in Registered }
    \cup { <<"bottomleft", Some(g), Some("Middle"), None>> : g \in Registered }

\* arguments (anchor, position) of set_placement
PlacementMenu ==
    { <<"BottomLeft", Tuple(<<4, 4>>)>>, <<"topright", Tuple(<<20, 12>>)>>,
      <<"bottomleft", List(<<4, 4>>)>>, <<"bottomleft", Tuple(<<4>>)>>,
      <<"Middle", Tuple(<<4, 4>>)>> }

AnchorAny ==
    \E f \in Registered \cup {CanvasName}, m \in DeclareMenu :
        SetAnchor(f, m[1], m[2], m[3], m[4])

PlaceAny == \E f \in Registered, m \in PlacementMenu : SetPlacement(f, m[1], m[2])

InitDeclare == InitWith({"bottomleft"}, {<<None, None>>})

NextDeclare ==
    \/ Register
    \/ AnchorAny
    \/ PlaceAny
    \/ DeclareSize
    \/ SolveFrame

SpecDeclare == InitDeclare /\ [][NextDeclare]_vars

\* Frame2DBase.get_anchor(anchor): the (reference, offset) pairs of its pins
get_anchor(f, a, st) ==
    << <<st.figpos_ref[get_ruler_pins_by_anchor_name(f, a)[1]],
         st.figpos_offset[get_ruler_pins_by_anchor_name(f, a)[1]]>>,
       <<st.figpos_ref[get_ruler_pins_by_anchor_name(f, a)[2]],
         st.figpos_offset[get_ruler_pins_by_anchor_name(f, a)[2]]>> >>

\* the pins of frame g behind anchor ra, as a set
AnchorPins(g, ra) == {get_ruler_pins_by_anchor_name(g, ra)[i] : i \in 1..2}

\* what C16 says of set_anchor(a, ref_frame, ref_anchor, offsets) on frame f
\* with the reference frame g, the reference anchor ra and the offsets offs
\* that the defaults give
AnchorSet(f, a, g, ra, offs) ==
    /\ err' = "none"
    /\ \A i \in 1..2 :
          /\ figpos_ref'[get_ruler_pins_by_anchor_name(f, a)[i]]
                = Some(get_ruler_pins_by_anchor_name(g, ra)[i])
          /\ figpos_offset'[get_ruler_pins_by_anchor_name(f, a)[i]] = offs[i]
    /\ get_anchor(f, a, Graph(init_pins))'
          = << <<Some(get_ruler_pins_by_anchor_name(g, ra)[1]), offs[1]>>,
               <<Some(get_ruler_pins_by_anchor_name(g, ra)[2]), offs[2]>> >>
    /\ figpos' = figpos
    /\ \A p \in AllPins \ AnchorPins(f, a) :
          figpos_ref'[p] = figpos_ref[p] /\ figpos_offset'[p] = figpos_offset[p]

\* C16: set_anchor(anchor, ref_frame, ref_anchor, offsets) with anchor names
\* that exist gives the two pins of anchor the pins of ref_frame's ref_anchor
\* as references, with the offsets per axis; a missing ref_frame is the
\* parent, a missing ref_anchor is anchor, missing offsets are (0, 0); no
\* position and no other pin changes, and get_anchor(anchor) returns the two
\* (reference, offset) pairs; on a frame without parent, without ref_frame,
\* it raises and changes nothing
C16_SetAnchor ==
    [][\A f \in Registered \cup {CanvasName}, m \in DeclareMenu :
          SetAnchor(f, m[1], m[2], m[3], m[4])
          => IF m[2] = None /\ parent(<<f>>) = None
             THEN /\ err' # "none"
                  /\ UNCHANGED <<figpos, figpos_ref, figpos_offset, ruler_length>>
             ELSE (~NoAnchor(m[1]) /\ (m[3] # None => ~NoAnchor(Val(m[3]))))
                  => AnchorSet(f, m[1],
                        IF m[2] = None THEN Val(parent(<<f>>))[1] ELSE Val(m[2]),
                        IF m[3] = None THEN m[1] ELSE Val(m[3]),
                        IF m[4] = None THEN <<0, 0>> ELSE Val(m[4]))]_vars

\* a frame with a placed corner got its topright anchored to the center of
\* its parent, the canvas, at the offsets (0.5, 1.0)
C16_Witness ==
    /\ op.name = "set_anchor"
    /\ err = "none"
    /\ \E f \in Registered :
          /\ figpos[<<f, "h", "pmin">>] # None
          /\ get_anchor(f, "topright", Graph(init_pins))
                = << <<Some(<<CanvasName, "h", "pmid">>), 4>>,
                     <<Some(<<CanvasName, "v", "pmid">>), 8>> >>

\* what C17 says of set_placement(a, position) on frame f: the two pins of
\* the anchor are at the two values without reference and offset, the other
\* pins are as before
PlacementSet(f, a, values) ==
    /\ err' = "none"
    /\ \A i \in 1..2 :
          /\ figpos'[get_ruler_pins_by_anchor_name(f, a)[i]] = Some(values[i])
          /\ figpos_ref'[get_ruler_pins_by_anchor_name(f, a)[i]] = None
          /\ figpos_offset'[get_ruler_pins_by_anchor_name(f, a)[i]] = 0
    /\ \A p \in AllPins \ AnchorPins(f, a) :
          /\ figpos'[p] = figpos[p]
          /\ figpos_ref'[p] = figpos_ref[p]
          /\ figpos_offset'[p] = figpos_offset[p]

\* set_placement with a position of length 2 and of one of the given types,
\* on an anchor that exists, does what C17 says
SetsPlacement(types) ==
    \A f \in Registered, m \in PlacementMenu :
        (/\ SetPlacement(f, m[1], m[2])
         /\ m[2].type \in types
         /\ Len(m[2].items) = 2
         /\ ~NoAnchor(m[1]))
        => PlacementSet(f, m[1], m[2].items)

\* C17: set_placement(anchor, position) of a frame, for a position that is a
\* tuple or a list of length 2, sets the horizontal and the vertical pin of
\* the anchor to the two values and clears their reference and offset; the
\* other four pins of the frame keep position, reference and offset
C17_LiteralPlacement == [][SetsPlacement({"tuple", "list"})]_vars

\* the anchor names on the left, right, bottom and top edge of the grid
LeftNames == {"bottomleft", "left", "topleft"}
RightNames == {"bottomright", "right", "topright"}
BottomNames == {"bottomleft", "bottom", "bottomright"}
TopNames == {"topleft", "top", "topright"}

\* the pin (low, mid, high) of a ruler for an anchor name, from the names of
\* the low edge and of the high edge
GridPin(a, low_names, high_names) ==
    IF a \in low_names THEN "pmin" ELSE IF a \in high_names THEN "pmax" ELSE "pmid"

\* anchor names in another case, with the name they stand for
CaseVariants == {<<"BottomLeft", "bottomleft">>, <<"CENTER", "center">>,
                 <<"TopRight", "topright">>}

\* names that are no anchor
OtherNames == {"Middle", "middle", "figure"}

\* the lookup of anchor names, in every state
AnchorGrid ==
    \A f \in AllFrames :
        /\ \A a \in AnchorNames :
              /\ ~NoAnchor(a)
              /\ get_ruler_pins_by_anchor_name(f, a)
                    = << <<f, "h", GridPin(a, LeftNames, RightNames)>>,
                         <<f, "v", GridPin(a, BottomNames, TopNames)>> >>
        /\ \A v \in CaseVariants :
              /\ ~NoAnchor(v[1])
              /\ get_ruler_pins_by_anchor_name(f, v[1])
                    = get_ruler_pins_by_anchor_name(f, v[2])
        /\ \A n \in OtherNames : NoAnchor(n)

\* get_extent() of a placed frame is (left, right, bottom, top)
ExtentOfPlaced ==
    \A f \in Registered :
        Frame_is_placed(f, Graph(init_pins)) =>
            get_extent(f, Graph(init_pins))
                = << Val(Frame_get_placement(f, "left", Graph(init_pins))[1]),
                     Val(Frame_get_placement(f, "right", Graph(init_pins))[1]),
                     Val(Frame_get_placement(f, "bottom", Graph(init_pins))[2]),
                     Val(Frame_get_placement(f, "top", Graph(init_pins))[2]) >>

\* a call that names an anchor that does not exist raises and changes nothing
OtherRejected ==
    /\ \A f \in Registered, m \in DeclareMenu :
          (/\ SetAnchor(f, m[1], m[2], m[3], m[4])
           /\ (NoAnchor(m[1]) \/ (m[3] # None /\ NoAnchor(Val(m[3])))))
          => (err' = "ValueError"
              /\ UNCHANGED <<figpos, figpos_ref, figpos_offset>>)
    /\ \A f \in Registered, m \in PlacementMenu :
          (/\ SetPlacement(f, m[1], m[2])
           /\ m[2].type = "tuple" /\ Len(m[2].items) = 2
           /\ NoAnchor(m[1]))
          => (err' = "ValueError"
              /\ UNCHANGED <<figpos, figpos_ref, figpos_offset>>)

\* C18: the nine anchor names map, in any case, to the pin pair of the 3x3
\* grid (left / center / right are low / mid / high of the horizontal ruler,
\* bottom / center / top are low / mid / high of the vertical ruler), every
\* other name is rejected, and get_extent() of a placed frame is (horizontal
\* low, horizontal high, vertical low, vertical high)
C18_AnchorNames ==
    /\ [](AnchorGrid /\ ExtentOfPlaced)
    /\ [][OtherRejected]_vars

\* a frame placed through "BottomLeft" and "topright" was solved and has the
\* extent (0.5, 2.5, 0.5, 1.5)
C18_Witness ==
    /\ op.name = "solve_placement_resursive"
    /\ err = "none"
    /\ \E f \in Registered :
          /\ Frame_is_placed(f, Graph(init_pins))
          /\ get_extent(f, Graph(init_pins)) = <<4, 20, 4, 12>>

----------------------------------------------------------------------------
(* Specification SpecRegistry: add_frame() with names that are free,       *)
(* registered, reserved, names of rulers, and a name with a "/".           *)

RegistryNames == {"A", "B", "figure", "h_ruler", "v_ruler", "h_ruler/pmin"}

AddAny == \E name \in RegistryNames : AddFrame(name)

InitRegistry == InitWith(OriginsIn, CanvasSizesIn)

NextRegistry == AddAny

SpecRegistry == InitRegistry /\ [][NextRegistry]_vars

\* a frame, its two rulers and their pins
ElementsOf(f) ==
    {<<f>>} \cup {<<f, ax>> : ax \in {"h", "v"}}
            \cup {<<f, ax, pn>> : ax \in {"h", "v"}, pn \in {"pmax", "pmid", "pmin"}}

\* the elements of the layout: the canvas and the registered frames, with
\* their rulers and pins
LayoutElements == UNION {ElementsOf(f) : f \in {CanvasName} \cup Registered}

\* C19: the global_name of an element is the global_name of its parent, "/"
\* and its own name (its own name when it has no parent), and two distinct
\* elements among the canvas, the registered frames, their rulers and their
\* pins have different global names, whatever names add_frame accepted
C19_UniqueGlobalNames ==
    /\ \A e \in LayoutElements :
          global_name(e) = IF parent(e) = None THEN Segments(elem_name(e))
                           ELSE global_name(Val(parent(e))) \o Segments(elem_name(e))
    /\ \A e1, e2 \in LayoutElements : e1 # e2 => global_name(e1) # global_name(e2)

\* the names add_frame reserves
ReservedNames == {"figure"}

\* the registry after the step is the registry before it, unchanged or with
\* new frames at the end
RegistryGrows ==
    /\ Len(frames') >= Len(frames)
    /\ SubSeq(frames', 1, Len(frames)) = frames

\* no name is registered twice
OnePerName == \A i, j \in 1..Len(frames) : frames[i] = frames[j] => i = j

\* add_frame(name) raises and leaves the registry unchanged when name is
\* one of the rejected names, and otherwise adds one frame whose parent is
\* the canvas at the end of the registry
AddsFrame(name, rejected) ==
    AddFrame(name) =>
        IF name \in rejected
        THEN err' # "none" /\ frames' = frames
        ELSE /\ err' = "none"
             /\ frames' = Append(frames, name)
             /\ parent(<<name>>) = Some(<<CanvasName>>)

\* C20 as stated: add_frame(name) raises and leaves the registry unchanged
\* when name is registered or reserved, and otherwise registers exactly one
\* new frame whose parent is the canvas; the registry holds one frame per
\* accepted name in insertion order, and no frame is removed or replaced
C20_AsStated ==
    /\ [][\A name \in RegistryNames :
             AddsFrame(name, Registered \cup ReservedNames)]_vars
    /\ [][RegistryGrows]_vars
    /\ []OnePerName

\* C20 amended: add_frame(name) raises and leaves the registry unchanged
\* when name is registered, is reserved or contains a "/", and otherwise
\* registers exactly one new frame whose parent is the canvas; the registry
\* holds one frame per accepted name in insertion order, and no frame is
\* removed or replaced
C20_RegistryGrows ==
    /\ [][\A name \in RegistryNames :
             AddsFrame(name, Registered \cup ReservedNames
                                \cup {n \in RegistryNames : HasSlash(n)})]_vars
    /\ [][RegistryGrows]_vars
    /\ []OnePerName

\* a call of add_frame was rejected on a registry of three frames, with the
\* frame named like a ruler registered after A
C20_Witness ==
    /\ op.name = "add_frame"
    /\ err = "ValueError"
    /\ Len(frames) = 3
    /\ frames[1] = "A" /\ frames[2] = "h_ruler"

----------------------------------------------------------------------------
(* Claims about the order and the path of the recursive solve, checked     *)
(* under SpecSolve on the history of the run                               *)

\* the last call was a run of the recursive solver
SolverRun == op.name \in {"solve_placement_resursive", "place_all_frames"}

\* the history holds an event of this kind
Happened(kind) == \E ev \in out.events : ev[1] = kind

\* C22: in every run of solve_placement_resursive(), when the local
\* solve_placement() of a node is invoked the node is unplaced and every
\* element of its get_dependencies() is placed; a pin with a reference is
\* never solved before the pin it references
C22_DependenciesFirst ==
    SolverRun =>
        /\ ~Happened("early")
        /\ \A ev \in out.events :
              (ev[1] = "local" /\ IsPin(ev[2]))
                 => (figpos_ref[ev[2]] # None
                     /\ figpos[Val(figpos_ref[ev[2]])] # None)

\* the local solve was invoked on a frame's ruler and on a pin that refers to
\* a pin of the other frame, and the run returned
C22_Witness ==
    /\ op.name = "solve_placement_resursive"
    /\ err = "none"
    /\ \E ev \in out.events : ev[1] = "local" /\ IsRuler(ev[2])
    /\ \E ev \in out.events :
          /\ ev[1] = "local" /\ IsPin(ev[2])
          /\ Val(figpos_ref[ev[2]])[1] \in Registered \ {ev[2][1]}

\* C23: every call of solve_placement_resursive(node, dep_path) that returns
\* without raising leaves node placed and dep_path with the contents it had
\* before the call
C23_PlacedAndRestored ==
    SolverRun =>
        /\ ~Happened("unplaced")
        /\ ~Happened("path")
        /\ (op.name = "solve_placement_resursive" /\ err = "none")
              => (is_placed(op.arg, Graph(init_pins)) /\ out.dep_path = <<>>)

\* nested calls on a frame, its rulers and a referenced pin of another frame
\* returned
C23_Witness ==
    /\ op.name = "solve_placement_resursive"
    /\ err = "none"
    /\ <<"returned", op.arg>> \in out.events
    /\ \E ev \in out.events :
          ev[1] = "returned" /\ IsPin(ev[2]) /\ ev[2][1] # op.arg[1]
    /\ \E ev \in out.events : ev[1] = "returned" /\ IsRuler(ev[2])

\* C24: when solve_placement_resursive(node, dep_path) raises a placement
\* error, dep_path has the contents it had before the call (here: empty)
C24_RestoredOnError ==
    (op.name = "solve_placement_resursive" /\ err \in PlacementKinds)
        => out.dep_path = <<>>

\* C26: no run of place_all_frames() or of solve_placement_resursive()
\* started with an empty path raises DependencyUnplacedError, and in none is
\* the local solve_placement() of a pin reached with the pin's reference
\* unplaced
C26_NoUnplacedDependency ==
    SolverRun =>
        /\ err # "DependencyUnplacedError"
        /\ ~Happened("blind")

\* place_all_frames() solved a pin through its reference
C26_Witness ==
    /\ op.name = "place_all_frames"
    /\ \E ev \in out.events :
          ev[1] = "local" /\ IsPin(ev[2]) /\ figpos[ev[2]] # None

----------------------------------------------------------------------------
(* Specification SpecCycle: references of a pin to itself, to a pin of its *)
(* own ruler and to the other frame, and the recursive solve started on    *)
(* frames, rulers and pins.                                                *)

\* arguments (anchor, ref_anchor) of set_anchor with the frame itself as
\* ref_frame: the pins refer to themselves, or to a pin of their own ruler
SelfMenu == {<<"bottomleft", None>>, <<"bottomleft", Some("topright")>>,
             <<"topright", Some("center")>>}

DeclareSelf ==
    \E f \in Registered, m \in SelfMenu : SetAnchor(f, m[1], Some(f), m[2], None)

\* solve_placement_resursive() on a frame, a ruler or a pin of the layout
SolveElement ==
    \E e \in {<<f>> : f \in Registered}
                \cup {<<f, "h">> : f \in Registered}
                \cup {<<f, "h", "pmin">> : f \in Registered} :
        SolveRecursive(e)

NextCycle ==
    \/ Declaring /\ Register
    \/ Declaring /\ DeclareSelf
    \/ Declaring /\ DeclareConflict
    \/ Declaring /\ DeclareSize
    \/ SolveElement
    \/ PlaceAllFrames

SpecCycle == InitSolve /\ [][NextCycle]_vars

\* C30: with any references, cyclic ones and those of a pin to itself or to
\* a pin of its own ruler included, solve_placement_resursive() and
\* place_all_frames() end, by returning or raising, before the nesting
\* reaches the depth of the graph, and no node is appended to a path that
\* holds it
C30_Terminates ==
    SolverRun =>
        /\ err # "RecursionError"
        /\ ~Happened("repush")
        /\ Len(out.dep_path) <= Cardinality(AllFrames) + Cardinality(AllRulers)
                                    + Cardinality(AllPins)
        /\ \A i, j \in 1..Len(out.dep_path) :
              out.dep_path[i] = out.dep_path[j] => i = j

\* a solve met a pin that refers to itself, and a solve met a pin that
\* refers to a pin of its own ruler: both ended with the cycle reported
C30_Witness ==
    /\ SolverRun
    /\ err = "CircularDependencyError"
    /\ \E p \in RegisteredPins :
          /\ figpos_ref[p] = Some(p)
          /\ InSeq(p, out.cycle)
    /\ \E p \in RegisteredPins :
          /\ figpos_ref[p] # None
          /\ Val(figpos_ref[p]) # p
          /\ <<p[1], p[2]>> = <<Val(figpos_ref[p])[1], Val(figpos_ref[p])[2]>>

----------------------------------------------------------------------------
(* Claims about the origin at the automatic sizing, under SpecCanvas *)

\* the pin of the origin anchor of the canvas on the axis of canvas ruler r
OriginPinOf(r) ==
    get_ruler_pins_by_anchor_name(CanvasName, origin)[IF r[2] = "h" THEN 1 ELSE 2]

\* C31: when place_all_frames() reaches the automatic sizing of a canvas
\* ruler, the pin of the origin anchor on that axis is placed at exactly 0:
\* the assertion of _calc_inclusive_rlen never fails, whatever was declared
\* on the frames and on the canvas
C31_OriginAtZero ==
    op.name = "place_all_frames" =>
        /\ err # "AssertionError"
        /\ \A r \in out.autosized : figpos[OriginPinOf(r)] = Some(0)

\* a pass sized both canvas rulers automatically around two frames, from an
\* origin that is not a corner
C31_Witness ==
    /\ op.name = "place_all_frames"
    /\ err = "none"
    /\ Len(frames) = 2
    /\ origin = "center"
    /\ out.autosized = {<<CanvasName, "h">>, <<CanvasName, "v">>}

----------------------------------------------------------------------------
(* Claims about the phases of place_all_frames(), under SpecSolve *)

\* the steps of place_all_frames() over the registered frames fs, in the
\* order of the claim: canvas cleared and origin placed, every frame
\* cleared, every frame solved, every frame verified, the canvas rulers
\* sized and verified
Phases(fs) ==
    << <<"clear", CanvasName>>, <<"origin", CanvasName>> >>
    \o [i \in 1..Len(fs) |-> <<"clear", fs[i]>>]
    \o [i \in 1..Len(fs) |-> <<"solve", fs[i]>>]
    \o [i \in 1..Len(fs) |-> <<"verify", fs[i]>>]
    \o << <<"size", "width">>, <<"check", "width">>,
          <<"size", "height">>, <<"check", "height">> >>

IsPrefix(s, t) == Len(s) <= Len(t) /\ \A i \in 1..Len(s) : s[i] = t[i]

\* C28: place_all_frames() runs its phases in order: canvas and frames are
\* cleared and the origin placed before any frame is solved, no frame is
\* verified before every frame was solved, the canvas rulers are sized and
\* verified after every frame was verified, and nothing runs after a step
\* that raised
C28_PhasesInOrder ==
    op.name = "place_all_frames" =>
        IF err = "none" THEN out.log = Phases(frames)
        ELSE /\ Len(out.log) >= 2
             /\ out.log[Len(out.log)][1] = "raised"
             /\ IsPrefix(SubSeq(out.log, 1, Len(out.log) - 1), Phases(frames))

\* a pass over two frames solved both, verified the first, and raised in the
\* verification of the second: the canvas rulers were not sized
C28_Witness ==
    /\ op.name = "place_all_frames"
    /\ Len(frames) = 2
    /\ err # "none"
    /\ Len(out.log) = 9
    /\ out.log[7] = <<"verify", frames[1]>>
    /\ out.log[8] = <<"verify", frames[2]>>
    /\ out.log[9] = <<"raised", frames[2]>>

----------------------------------------------------------------------------
(* Claims about the state a pass starts from, under SpecLayout *)

\* the graph st with no pin of the canvas or of a registered frame placed
Cleared(st) ==
    [st EXCEPT !.figpos = [p \in AllPins |->
                              IF p[1] \in LayoutFrames THEN None ELSE @[p]]]

\* what a pass leaves: the error raised if any, every position, every length
PassResult(st) == <<st.err, st.figpos, st.ruler_length>>

\* C29: the outcome of place_all_frames(), error or success and every
\* position, is that of the same pass started with no pin of the canvas or
\* of a registered frame placed, whatever positions they hold before it
C29_ClearedStart ==
    \A ord \in SetOrders :
        PassResult(place_all_frames(frames, origin, Graph(ord)))
            = PassResult(place_all_frames(frames, origin, Cleared(Graph(ord))))

\* a pass raised and left pins of a registered frame placed, on a frame
\* that also had a position set directly
C29_Witness ==
    /\ op.name = "place_all_frames"
    /\ err # "none"
    /\ \E p \in RegisteredPins : figpos[p] # None
    /\ \E p \in LayoutPins : p[1] = CanvasName /\ figpos[p] # None

----------------------------------------------------------------------------
(* Specification SpecFigure: create_figure_layout() on layouts with given  *)
(* or automatic canvas size and frames anchored to the origin.  The        *)
(* margins are attributes set by the constructor and read only by          *)
(* create_figure_layout(), which ends the run: they are drawn at the call. *)

\* left, right, bottom, top margins: the defaults (0.5 each), unequal ones,
\* and none
MarginsIn ==
    {[left |-> 4, right |-> 4, bottom |-> 4, top |-> 4],
     [left |-> 8, right |-> 0, bottom |-> 2, top |-> 16],
     [left |-> 0, right |-> 0, bottom |-> 0, top |-> 0]}

\* canvas_width, canvas_height: automatic, or (4.0, 2.0)
FigureCanvasSizes == {<<None, None>>, <<Some(32), Some(16)>>}

FigureLayout == \E m \in MarginsIn, usable \in BOOLEAN : CreateFigureLayout(m, usable)

InitFigure == InitWith(OriginsIn, FigureCanvasSizes)

NextFigure ==
    \/ Declaring /\ Register
    \/ Declaring /\ AnchorToOrigin
    \/ Declaring /\ SizeOnCanvas
    \/ Declaring /\ FigureLayout

SpecFigure == InitFigure /\ [][NextFigure]_vars

\* create_figure_layout() returned, having sized the figure and created the
\* artists
LaidOut == op.name = "create_figure_layout" /\ err = "none"

\* width and height of the placed canvas
CanvasWidth == High(CanvasName, "h") - Low(CanvasName, "h")
CanvasHeight == High(CanvasName, "v") - Low(CanvasName, "v")

\* C21: create_figure_layout() sizes the figure to the width left margin +
\* canvas width + right margin and the height bottom margin + canvas height
\* + top margin, the figure width and height every create_artist() takes
C21_FigureSize ==
    LaidOut =>
        /\ Val(out.figsize)[1] = op.arg.left + CanvasWidth + op.arg.right
        /\ Val(out.figsize)[2] = op.arg.bottom + CanvasHeight + op.arg.top
        /\ \A i \in 1..Len(out.artists) :
              /\ out.artists[i].fwidth = Val(out.figsize)[1]
              /\ out.artists[i].fheight = Val(out.figsize)[2]

----------------------------------------------------------------------------
(* Specification SpecRuler: solve_placement() called directly on the       *)
(* rulers of frames whose pins were placed, anchored and sized in any      *)
(* combination, with lengths that agree with the placed pins or not; the   *)
(* direct solve ends the run.                                              *)

\* arguments (anchor, position) of set_placement: corners and center of one
\* rectangle of 2 x 1 inches
RulerPlacements ==
    {<<"bottomleft", <<4, 4>>>>, <<"center", <<12, 8>>>>, <<"topright", <<20, 12>>>>}

\* sizes that agree with that rectangle, and that do not
RulerSizes == {<<Some(16), Some(8)>>, <<Some(8), Some(8)>>}

PlaceCorner ==
    \E f \in Registered, m \in RulerPlacements : SetPlacement(f, m[1], Tuple(m[2]))

SizeRuler == \E f \in Registered, sz \in RulerSizes : SetSize(f, sz[1], sz[2])

SolveRuler == \E f \in Registered, ax \in {"h", "v"} : SolveLocal(<<f, ax>>)

NextRuler ==
    \/ Declaring /\ Register
    \/ Declaring /\ DeclareAnchor
    \/ Declaring /\ PlaceCorner
    \/ Declaring /\ SizeRuler
    \/ Declaring /\ SolveRuler

SpecRuler == InitSolve /\ [][NextRuler]_vars

\* the pins of ruler r that are placed
PlacedPins(r) == {p \in RulerPins(r) : figpos[p] # None}

\* the pins of ruler r that have a reference
ReferencedPins(r) == {p \in RulerPins(r) : figpos_ref[p] # None}

\* ruler r is placeable and its dependencies are not solved: it has no
\* explicit length and its pins with a reference are not placed, or it has
\* an explicit length and no pin is placed
BeforeDependencies(r) ==
    /\ Ruler_is_placeable(r, Graph(init_pins))
    /\ \/ /\ ruler_length[r] = None
          /\ ReferencedPins(r) # {}
          /\ ReferencedPins(r) \cap PlacedPins(r) = {}
       \/ /\ ruler_length[r] # None
          /\ PlacedPins(r) = {}

\* C25: solve_placement() of a ruler, called directly on a placeable ruler
\* whose dependencies are not solved, raises DependencyUnplacedError and
\* places no pin
C25_DependencyUnplaced ==
    [][\A r \in AllRulers :
          (/\ op' = [name |-> "solve_placement", arg |-> r]
           /\ BeforeDependencies(r))
          => (err' = "DependencyUnplacedError" /\ figpos' = figpos)]_vars

\* the position the claim gives pin p of a ruler of length len from pin rp
FromPin(p, rp, len) ==
    Val(figpos[rp]) + ((ruler_pos2(p[3]) - ruler_pos2(rp[3])) * len) \div 2

\* the lengths the claim allows for ruler r: the explicit one, otherwise the
\* one computed from two placed pins
ClaimedLengths(r) ==
    IF ruler_length[r] # None THEN {Val(ruler_length[r])}
    ELSE UNION {{LengthBetween(p1, p2, Graph(init_pins)) :
                    p2 \in PlacedPins(r) \ {p1}} : p1 \in PlacedPins(r)}

\* the placed pins of r and the length len agree with each other
Consistent(r, len) ==
    \A p1, p2 \in PlacedPins(r) :
        Val(figpos[p1]) = FromPin(p1, p2, len)

\* what C27 says of a direct solve_placement() of ruler r
RulerSolved(r) ==
    /\ err' = "none"
    /\ \A p \in PlacedPins(r) : figpos'[p] = figpos[p]
    /\ \E len \in ClaimedLengths(r) :
          /\ \E rp \in PlacedPins(r) :
                \A p \in RulerPins(r) \ PlacedPins(r) :
                    figpos'[p] = Some(FromPin(p, rp, len))
          /\ Consistent(r, len) =>
                \A rp \in PlacedPins(r) :
                    \A p \in RulerPins(r) \ PlacedPins(r) :
                        figpos'[p] = Some(FromPin(p, rp, len))

\* C27: solve_placement() of a placeable ruler with a placed pin takes the
\* explicit length, otherwise the length computed from two placed pins, sets
\* every unplaced pin p to rp.position + (p.axis_position -
\* rp.axis_position) * length for a placed pin rp and leaves the placed pins;
\* with placed pins and length that agree, every placed pin gives the same
\* result as rp
C27_RulerSolve ==
    [][\A r \in AllRulers :
          (/\ op' = [name |-> "solve_placement", arg |-> r]
           /\ Ruler_is_placeable(r, Graph(init_pins))
           /\ PlacedPins(r) # {})
          => RulerSolved(r)]_vars

----------------------------------------------------------------------------
(* Specification SpecPlaced: the recursive solve started on frames, rulers *)
(* and pins of layouts whose pins were placed directly, anchored and sized *)
(* in any combination, so that nodes are placed with their constraints     *)
(* violated or their dependencies unplaced.  The solve ends the run.       *)

SolvePlaced ==
    \E f \in Registered :
        \E e \in {<<f>>, <<f, "h">>, <<f, "h", "pmin">>, <<f, "v", "pmax">>} :
            SolveRecursive(e)

NextPlaced ==
    \/ Declaring /\ Register
    \/ Declaring /\ DeclareAnchor
    \/ Declaring /\ PlaceCorner
    \/ Declaring /\ SizeRuler
    \/ Declaring /\ SolvePlaced

SpecPlaced == InitSolve /\ [][NextPlaced]_vars

\* C32: placed is terminal within a solve: no local solve of a
\* solve_placement_resursive() changes or clears the position of a placed
\* pin, and the call on a node that is placed returns without changing any
\* position, reference, offset or length, also when the constraints declared
\* on the node are violated or its dependencies are unplaced
C32_PlacedIsTerminal ==
    [][op'.name = "solve_placement_resursive" =>
          /\ \A p \in AllPins : <<"moved", p>> \notin out'.events
          /\ \A p \in AllPins : figpos[p] # None => figpos'[p] = figpos[p]
          /\ is_placed(op'.arg, Graph(init_pins)) =>
                /\ err' = "none"
                /\ UNCHANGED <<figpos, figpos_ref, figpos_offset, ruler_length>>]_vars

\* the solve was called on a pin that is placed and refers to an unplaced
\* pin, and on return it is all that happened
C32_Witness ==
    /\ op.name = "solve_placement_resursive"
    /\ err = "none"
    /\ IsPin(op.arg)
    /\ figpos[op.arg] # None
    /\ RefUnplaced(op.arg, Graph(init_pins))
    /\ out.events = {<<"returned", op.arg>>}

----------------------------------------------------------------------------
(* Specification SpecSized: frames anchored to the canvas by up to three   *)
(* anchors, so that all three pins of a ruler can hold a reference, and    *)
(* sized in agreement with those anchors or not.                           *)

\* frame.set_anchor(a): the same anchor of the parent, the canvas
AnchorSame ==
    \E f \in Registered, a \in {"bottomleft", "center", "topright"} :
        SetAnchor(f, a, None, None, None)

InitSized == InitWith(OriginsIn, FigureCanvasSizes)

NextSized ==
    \/ Declaring /\ Register
    \/ Declaring /\ AnchorSame
    \/ Declaring /\ SizeOnCanvas
    \/ PlaceAllFrames

SpecSized == InitSized /\ [][NextSized]_vars

\* C33: after place_all_frames() returned, every ruler with an explicit
\* length has its high pin above its low pin by that length, so that
\* get_width() and get_height() of a sized frame agree with get_extent()
C33_ExplicitLengthHolds ==
    Placed =>
        \A r \in LayoutRulers :
            ruler_length[r] # None =>
                High(r[1], r[2]) - Low(r[1], r[2]) = Val(ruler_length[r])

----------------------------------------------------------------------------
(* Specification SpecShared: anchors of one frame that share a pin, set    *)
(* one after the other with different offsets from the bottom left corner  *)
(* of the canvas, and cleared; the canvas is sized automatically.          *)

\* arguments (anchor, offsets) of set_anchor(anchor, ref_anchor =
\* "bottomleft", offsets = offsets).  bottomleft and topleft share the
\* horizontal low pin, bottomleft and bottomright the vertical low pin; every
\* pin gets a different offset from each anchor
SharedMenu ==
    {<<"bottomleft", <<8, 0>>>>, <<"topleft", <<0, 16>>>>,
     <<"bottomright", <<24, 4>>>>}

AnchorShared ==
    \E f \in Registered, m \in SharedMenu :
        SetAnchor(f, m[1], None, Some("bottomleft"), Some(m[2]))

ClearShared ==
    \E f \in Registered, a \in {"bottomleft", "topleft"} : ClearAnchor(f, a)

NextShared ==
    \/ Declaring /\ Register
    \/ Declaring /\ AnchorShared
    \/ Declaring /\ ClearShared
    \/ PlaceAllFrames

SpecShared == InitSolve /\ [][NextShared]_vars

\* the pin of frame f behind anchor a on axis i (1 horizontal, 2 vertical)
PinBehind(f, a, i) == get_ruler_pins_by_anchor_name(f, a)[i]

\* the reference and the offset pin p holds
RefOf(p) == <<figpos_ref[p], figpos_offset[p]>>

\* set_anchor(a, ref_anchor = "bottomleft", offsets = offs) on frame f
\* returns, and every anchor b of f then reads, on each axis, the reference
\* of this call where it shares the pin with a, and what it read before
\* where it does not
SharedSet(f, a, offs) ==
    /\ err' = "none"
    /\ figpos' = figpos
    /\ \A b \in AnchorNames, i \in 1..2 :
          RefOf(PinBehind(f, b, i))' =
              IF PinBehind(f, b, i) = PinBehind(f, a, i)
              THEN <<Some(PinBehind(CanvasName, "bottomleft", i)), offs[i]>>
              ELSE RefOf(PinBehind(f, b, i))

\* clear_anchor(a) on frame f returns, and every anchor b of f then reads no
\* reference and offset 0 where it shares the pin with a, and what it read
\* before where it does not
SharedCleared(f, a) ==
    /\ err' = "none"
    /\ figpos' = figpos
    /\ \A b \in AnchorNames, i \in 1..2 :
          RefOf(PinBehind(f, b, i))' =
              IF PinBehind(f, b, i) = PinBehind(f, a, i)
              THEN <<None, 0>>
              ELSE RefOf(PinBehind(f, b, i))

\* frame f holds the vertical offset of set_anchor("bottomleft") and the
\* horizontal offset of a later set_anchor("topleft"): the horizontal offset
\* declared with bottomleft is lost
LostDeclaration(f) ==
    /\ RefOf(<<f, "v", "pmin">>) = <<Some(<<CanvasName, "v", "pmin">>), 0>>
    /\ RefOf(<<f, "h", "pmin">>) = <<Some(<<CanvasName, "h", "pmin">>), 0>>
    /\ RefOf(<<f, "v", "pmax">>) = <<Some(<<CanvasName, "v", "pmin">>), 16>>

\* every registered frame has two referenced pins on each ruler
AllDeclared ==
    \A f \in Registered, ax \in {"h", "v"} :
        Cardinality(ReferencedPins(<<f, ax>>)) >= 2

\* C34: anchors of one frame that share a pin share its single reference:
\* set_anchor replaces the reference and the offset of the shared pin for
\* every anchor behind it, without error; clear_anchor removes them for
\* every anchor behind it and leaves the other pins; and a pass over frames
\* with a lost declaration raises nothing at solve or verify time and places
\* the shared pin by the later offset
C34_SharedReference ==
    [][/\ \A f \in Registered, m \in SharedMenu :
             SetAnchor(f, m[1], None, Some("bottomleft"), Some(m[2]))
                 => SharedSet(f, m[1], m[2])
       /\ \A f \in Registered, a \in {"bottomleft", "topleft"} :
             ClearAnchor(f, a) => SharedCleared(f, a)
       /\ \A f \in Registered :
             (PlaceAllFrames /\ AllDeclared /\ LostDeclaration(f))
                 => (err' = "none" /\ figpos'[<<f, "h", "pmin">>] = Some(0))]_vars

\* a pass returned on a frame whose shared pin holds the later of two
\* declarations, and placed it by the later offset
C34_Witness ==
    /\ op.name = "place_all_frames"
    /\ err = "none"
    /\ AllDeclared
    /\ \E f \in Registered : LostDeclaration(f) /\ figpos[<<f, "h", "pmin">>] = Some(0)

====
